---- MODULE Spec2Model ----
(***************************************************************************)
(* MeshTools: the mesh reconstruction engine (mesh.rs, triangle.rs) and    *)
(* the one-shot background computation (thread_request.rs) as used by      *)
(* AnalysisUI (analysis_ui.rs).                                            *)
(*                                                                         *)
(* Coordinates are integers and the arithmetic on them is exact: the f32   *)
(* values of the inputs used here (0, 1, 2, 3, 131072) and the             *)
(* quotients by the power of two 65536 are exactly representable.  The     *)
(* tolerance (max - min).max() / 65536.0 is kept as its numerator E, the   *)
(* largest axis extent of the bounding box, so that every comparison with  *)
(* the tolerance and every quantization is computed exactly.               *)
(***************************************************************************)
EXTENDS Integers, Sequences, FiniteSets, TLC

VARIABLES
    triangles,   \* the input triangle list (AnalysisUI::new / TriangleMesh::new argument)
    phase,       \* position of the sequential caller: "input", "built", "counted", "panicked"
    mesh,        \* the TriangleMesh returned by TriangleMesh::new, or None
    bodies       \* the value returned by count_bodies, or None

VARIABLES
    req,         \* the Requests that exist: the Some(..) fields of AnalysisUI
    cell,        \* per Request, the shared cell  Arc<RwLock<Option<T>>>
    wpc,         \* per Request, the position of its worker thread
    wres,        \* per Request, Some(thread_result) once f() has returned
    readers,     \* per Request, the threads holding a read guard on its cell
    writes,      \* per Request, how many times its cell has been assigned
    uiPc,        \* the position of the UI thread inside AnalysisUI::ui
    seen,        \* per Request, what the UI thread's latest poll of its cell returned
    bodySaw,     \* what the body-count worker's read of the mesh cell returned
    bodyReads,   \* how many times the body-count worker has read the mesh cell
    meshOut,     \* what TriangleMesh::new(&triangles) does in this run, fixed by the
                 \* build profile and the hash seed: Panic, or Some(mesh)
    countOut     \* Some(count_bodies(mesh)) for that mesh, computed once

VARIABLES
    file,        \* the STL file at the path: None when the path cannot be opened,
                 \* Some(bytes) otherwise
    wrote,       \* the Result returned by write_stl_binary, None before the call
    loaded,      \* the Result returned by read_stl_binary, None before the call
    area,        \* the value returned by triangle::surface_area, None before the call
    vol          \* the value returned by triangle::volume, None before the call

VARIABLES
    weldIn,            \* merge_vertices: the vertex stream `vertices`
    min_axis_distance, \* merge_vertices: the tolerance, as its numerator E (E / 65536)
    weldWrap,          \* merge_vertices: TRUE when integer overflow wraps (overflow
                       \* checks off), FALSE when it panics
    quant_map,         \* merge_vertices: the hash map of records
    weldCount,         \* merge_vertices: the counter i, the index of the next vertex
    probed,            \* merge_vertices: the cells looked up for the latest vertex,
                       \* in order
    weldPc             \* merge_vertices: "none", "loop", "returned" or "panicked"

VARIABLES
    transformations,   \* TransformationUI: the list of transformations (their kinds)
    selection,         \* TransformationUI: None or Some(index) of the entry being edited
    xformPc            \* TransformationUI: "none", "idle" between frames, or "panicked"

VARIABLES
    viewBounds,        \* view_state.rs: what get_bounds returned, None before the call
    viewCenter,        \* view_state.rs: what get_center returned, None before the call
    meshViewCenter     \* mesh_view.rs: what get_center returned, None before the call

VARIABLES
    island_markers,    \* count_bodies: the island of each vertex, 0 for no island
    island_count,      \* count_bodies: the islands found so far
    open_set,          \* count_bodies: the stack of vertices still to propagate from
    countI,            \* count_bodies: the index i of the loop over the vertices
    countPc,           \* count_bodies: "none", "vertices" (at the head of the loop over
                       \* the vertices), "propagate" (in the while loop) or "returned"
    pushes             \* history: how many times each vertex was put on open_set

VARIABLES
    searchList,        \* binary_min_search: the argument list
    searchValue,       \* binary_min_search: the argument value
    searchResult       \* binary_min_search: the index returned, None before the call

meshVars == <<triangles, phase, mesh, bodies>>
reqVars == <<req, cell, wpc, wres, readers, writes>>
uiVars == <<uiPc, seen, bodySaw, bodyReads, meshOut, countOut>>
codecVars == <<file, wrote, loaded>>
geomVars == <<area, vol>>
weldVars == <<weldIn, min_axis_distance, weldWrap, quant_map, weldCount, probed, weldPc>>
xformVars == <<transformations, selection, xformPc>>
\* the state of the parts outside the mesh engine, the codec and the requests
viewVars == <<viewBounds, viewCenter, meshViewCenter>>
countVars == <<island_markers, island_count, open_set, countI, countPc, pushes>>
searchVars == <<searchList, searchValue, searchResult>>
otherVars == <<xformVars, viewVars, countVars, searchVars>>
\* the state of the mesh engine, the codec and the requests
coreVars == <<meshVars, reqVars, uiVars, codecVars, geomVars, weldVars>>
vars == <<meshVars, reqVars, uiVars, codecVars, geomVars, weldVars, otherVars>>

None == [tag |-> "None"]
Some(x) == [tag |-> "Some", val |-> x]
Panic == [tag |-> "Panic"]

----------------------------------------------------------------------------
(* Small helpers on integers and sequences                                 *)

Abs(n) == IF n < 0 THEN -n ELSE n
Max2(a, b) == IF a >= b THEN a ELSE b
Min2(a, b) == IF a <= b THEN a ELSE b
Range(s) == {s[k] : k \in DOMAIN s}

\* Vec3 - Vec3
VSub(a, b) == <<a[1] - b[1], a[2] - b[2], a[3] - b[3]>>
\* nalgebra Vector::max(): the largest component (signed)
VMax(v) == Max2(v[1], Max2(v[2], v[3]))
\* nalgebra Vector::abs(): component-wise absolute value
VAbs(v) == <<Abs(v[1]), Abs(v[2]), Abs(v[3])>>

RECURSIVE Flatten(_)
\* Iterator::flatten over a sequence of triangles: the stream of their corners
Flatten(ts) ==
    IF ts = <<>> THEN <<>>
    ELSE <<ts[1][1], ts[1][2], ts[1][3]>> \o Flatten(Tail(ts))

RECURSIVE Perms(_)
\* every enumeration order of a finite set
Perms(S) ==
    IF S = {} THEN {<<>>}
    ELSE UNION {{<<x>> \o p : p \in Perms(S \ {x})} : x \in S}

----------------------------------------------------------------------------
(* triangle.rs: bounding_box                                               *)

AllVertices(ts) == Range(Flatten(ts))

bounding_box(ts) ==
    IF Len(ts) = 0 THEN None
    ELSE LET vs == AllVertices(ts)
             lo(a) == CHOOSE m \in {v[a] : v \in vs} : \A v \in vs : m <= v[a]
             hi(a) == CHOOSE m \in {v[a] : v \in vs} : \A v \in vs : m >= v[a]
         IN Some(<<<<lo(1), lo(2), lo(3)>>, <<hi(1), hi(2), hi(3)>>>>)

----------------------------------------------------------------------------
(* mesh.rs: tolerance, quantization                                        *)

\* the divisor of the tolerance: tolerance = E / 65536
ToleranceDivisor == 65536

\* i64::MAX and i64::MIN.  The integers of the model checker are 32 bits wide, so
\* the two saturation values of the cast `as i64` are placed at +-2^30; every
\* finite quotient of the model lies far inside that range, and only saturation
\* and the overflow of +-1 at the two ends are observable.
I64Max == 2^30 - 1
I64Min == -(2^30)

\* E: the numerator of the tolerance, (max - min).max(); zero vectors for no triangles
Extent(ts) ==
    LET bb == bounding_box(ts)
        box == IF bb = None THEN <<<<0, 0, 0>>, <<0, 0, 0>>>> ELSE bb.val
    IN VMax(VSub(box[2], box[1]))

\* d >= tolerance for an integer d, that is d * 65536 >= E
GeTol(d, E) == d >= (E + ToleranceDivisor - 1) \div ToleranceDivisor
\* d < tolerance
LtTol(d, E) == ~GeTol(d, E)

\* floor(c * 65536 / E) for E > 0, computed in two steps of 256 to stay in range
FloorScaled(c, E) ==
    LET q0 == c \div E
        r0 == c % E
        q1 == (r0 * 256) \div E
        r1 == (r0 * 256) % E
    IN q0 * ToleranceDivisor + q1 * 256 + (r1 * 256) \div E

\* (c / min_axis_distance).floor() as i64: for tolerance 0 the quotient is
\* +inf, -inf or NaN, and the cast saturates (NaN gives 0)
Quantize(c, E) ==
    IF E = 0 THEN (IF c > 0 THEN I64Max ELSE IF c < 0 THEN I64Min ELSE 0)
    ELSE FloorScaled(c, E)

Quant(v, E) == <<Quantize(v[1], E), Quantize(v[2], E), Quantize(v[3], E)>>

\* i64 arithmetic that left the range
Overflows(n) == n > I64Max \/ n < I64Min
\* the wrapped (two's complement) result of an i64 addition or subtraction of 1
WrapI64(n) ==
    IF n > I64Max THEN n - I64Max - 1 + I64Min
    ELSE IF n < I64Min THEN n - I64Min + I64Max + 1
    ELSE n

\* faulty variant: the range also covers the cell above, q - 1 ..= q + 1
AxisRangeFull(q) ==
    LET lo == WrapI64(q - 1)
        hi == WrapI64(q + 1)
    IN IF lo <= hi THEN [k \in 1..(hi - lo + 1) |-> lo + k - 1] ELSE <<>>

\* the range  q - 1 .. q + 1  (upper end exclusive) with wrapped ends
AxisRange(q) ==
    LET lo == WrapI64(q - 1)
        hi == WrapI64(q + 1)
    IN IF lo < hi THEN [k \in 1..(hi - lo) |-> lo + k - 1] ELSE <<>>

\* the cells visited by the three nested loops, in visiting order
ProbeCells(quant) ==
    LET xr == AxisRange(quant[1])
        yr == AxisRange(quant[2])
        zr == AxisRange(quant[3])
        ny == Len(yr)
        nz == Len(zr)
    IN [k \in 1..(Len(xr) * ny * nz) |->
            <<xr[((k - 1) \div (ny * nz)) + 1],
              yr[(((k - 1) \div nz) % ny) + 1],
              zr[((k - 1) % nz) + 1]>>]

\* with overflow checks on, computing a range end of a saturated cell panics
ProbePanics(quant) ==
    \E a \in 1..3 : Overflows(quant[a] - 1) \/ Overflows(quant[a] + 1)

\* the condition of line 59 for an occupied cell
ProbeMatches(m, check_quant, quant, v, E) ==
    check_quant = quant \/ LtTol(VMax(VSub(m[check_quant].v, v)), E)

\* one iteration of the loop over the vertex stream: vertex v with index i
MergeStep(m, i, v, E) ==
    LET quant == Quant(v, E)
        cells == ProbeCells(quant)
        hits == {k \in DOMAIN cells :
                    cells[k] \in DOMAIN m /\ ProbeMatches(m, cells[k], quant, v, E)}
    IN IF hits # {}
       THEN LET first == cells[CHOOSE k \in hits : \A j \in hits : k <= j]
            IN [m EXCEPT ![first].idx = Append(@, i)]
       ELSE [c \in DOMAIN m \cup {quant} |->
                IF c = quant THEN [v |-> v, idx |-> <<i>>] ELSE m[c]]

\* the cells looked up with get_mut for vertex v, in order: the loops break at
\* the first match
Examined(m, quant, v, E) ==
    LET cells == ProbeCells(quant)
        hits == {k \in DOMAIN cells :
                    cells[k] \in DOMAIN m /\ ProbeMatches(m, cells[k], quant, v, E)}
    IN IF hits = {} THEN cells
       ELSE SubSeq(cells, 1, CHOOSE k \in hits : \A j \in hits : k <= j)

RECURSIVE MergeFrom(_, _, _, _, _)
MergeFrom(m, vs, i, E, wrap) ==
    IF i >= Len(vs) THEN [panic |-> FALSE, map |-> m]
    ELSE IF ~wrap /\ ProbePanics(Quant(vs[i + 1], E))
         THEN [panic |-> TRUE, map |-> m]
         ELSE MergeFrom(MergeStep(m, i, vs[i + 1], E), vs, i + 1, E, wrap)

EmptyMap == [c \in {} |-> [v |-> <<0, 0, 0>>, idx |-> <<>>]]

\* merge_vertices(vertices, min_axis_distance); wrap: arithmetic wraps (release build)
merge_vertices(vs, E, wrap) == MergeFrom(EmptyMap, vs, 0, E, wrap)

----------------------------------------------------------------------------
(* mesh.rs: TriangleMesh::new                                              *)

\* faulty variant: an edge of exactly one tolerance counts as degenerate
IsNonzeroStrict(t, E) ==
    /\ ~LtTol(VMax(VAbs(VSub(t[1], t[2]))) - 1, E)
    /\ ~LtTol(VMax(VAbs(VSub(t[2], t[3]))) - 1, E)
    /\ ~LtTol(VMax(VAbs(VSub(t[3], t[1]))) - 1, E)

\* the filter closure of lines 101-105: the triangle is kept
IsNonzero(t, E) ==
    /\ GeTol(VMax(VAbs(VSub(t[1], t[2]))), E)
    /\ GeTol(VMax(VAbs(VSub(t[2], t[3]))), E)
    /\ GeTol(VMax(VAbs(VSub(t[3], t[1]))), E)

RECURSIVE Filter(_, _)
Filter(ts, E) ==
    IF ts = <<>> THEN <<>>
    ELSE (IF IsNonzero(ts[1], E) THEN <<ts[1]>> ELSE <<>>) \o Filter(Tail(ts), E)

\* nonzero_triangles
NonzeroTriangles(ts) == Filter(ts, Extent(ts))

\* vertex_map of line 106
VertexMap(ts, wrap) == merge_vertices(Flatten(NonzeroTriangles(ts)), Extent(ts), wrap)

RECURSIVE SetCorners(_, _, _, _)
\* lines 111-113: faces[i/3][i%3] = slot for the indexes idx[k..] of one record
SetCorners(faces, idx, k, slot) ==
    IF k > Len(idx) THEN faces
    ELSE LET i == idx[k]
         IN SetCorners([faces EXCEPT ![(i \div 3) + 1][(i % 3) + 1] = slot], idx, k + 1, slot)

\* x / 3 over a record's indexes (line 115)
FaceIndexes(idx) == [k \in DOMAIN idx |-> idx[k] \div 3]

RECURSIVE Assemble(_, _, _, _)
\* lines 110-116: the loop over the hash map, visiting its keys in `order`
Assemble(acc, m, order, k) ==
    IF k > Len(order) THEN acc
    ELSE LET rec == m[order[k]]
         IN Assemble([vertices |-> Append(acc.vertices, rec.v),
                      faces |-> SetCorners(acc.faces, rec.idx, 1, Len(acc.vertices)),
                      face_map |-> Append(acc.face_map, FaceIndexes(rec.idx))],
                     m, order, k + 1)

\* faulty variant: one face too many is allocated before the loop
InitialMeshPadded(ts) ==
    [vertices |-> <<>>,
     faces |-> [f \in 1..(Len(ts) + 1) |-> <<0, 0, 0>>],
     face_map |-> <<>>]

\* lines 107-109: the three vectors before the loop
InitialMesh(ts) ==
    [vertices |-> <<>>,
     faces |-> [f \in 1..Len(ts) |-> <<0, 0, 0>>],
     face_map |-> <<>>]

\* the iteration orders of the hash map: any order of its keys
MapOrders(m) == Perms(DOMAIN m)

\* TriangleMesh::new from line 107 on: vm is the outcome of line 106 and the hash
\* map is iterated in `order`
TriangleMeshNew(ts, vm, order) == Assemble(InitialMesh(ts), vm.map, order, 1)

\* the outcomes of TriangleMesh::new once merge_vertices has produced vm: the
\* panic it ended in, or the mesh for one iteration order of the hash map
OutcomesOf(ts, vm) ==
    IF vm.panic THEN {Panic}
    ELSE {Some(TriangleMeshNew(ts, vm, order)) : order \in MapOrders(vm.map)}

\* what TriangleMesh::new can do on ts: with overflow checks on (wrap = FALSE) an
\* overflow panics, with overflow checks off (wrap = TRUE) it wraps
MeshOutcomes(ts) == UNION {OutcomesOf(ts, VertexMap(ts, wrap)) : wrap \in BOOLEAN}

----------------------------------------------------------------------------
(* mesh.rs: TriangleMesh::count_bodies                                     *)

RECURSIVE VisitCorners(_, _, _, _, _)
\* lines 136-141 for one face: st = [markers, stack, panic]
VisitCorners(st, face, c, label, nverts) ==
    IF c > 3 \/ st.panic THEN st
    ELSE LET adj == face[c]
         IN IF adj >= nverts
            THEN [st EXCEPT !.panic = TRUE]
            ELSE IF st.markers[adj + 1] = 0
                 THEN VisitCorners([st EXCEPT !.markers[adj + 1] = label,
                                              !.stack = Append(@, adj)],
                                   face, c + 1, label, nverts)
                 ELSE VisitCorners(st, face, c + 1, label, nverts)

\* faulty variant: the loop over the popped vertex's faces stops after the first face
VisitFirstFace(m, st, fs, k, label) ==
    IF k > Len(fs) \/ k > 1 \/ st.panic THEN st
    ELSE IF fs[k] >= Len(m.faces)
         THEN [st EXCEPT !.panic = TRUE]
         ELSE VisitCorners(st, m.faces[fs[k] + 1], 1, label, Len(m.vertices))

RECURSIVE VisitFaces(_, _, _, _, _)
\* lines 135-142: the faces fs[k..] of the popped vertex
VisitFaces(m, st, fs, k, label) ==
    IF k > Len(fs) \/ st.panic THEN st
    ELSE IF fs[k] >= Len(m.faces)
         THEN [st EXCEPT !.panic = TRUE]
         ELSE VisitFaces(m, VisitCorners(st, m.faces[fs[k] + 1], 1, label, Len(m.vertices)),
                         fs, k + 1, label)

RECURSIVE Flood(_, _, _)
\* lines 133-143: the while loop over open_set
Flood(m, st, label) ==
    IF st.stack = <<>> \/ st.panic THEN st
    ELSE LET vert == st.stack[Len(st.stack)]
             popped == [st EXCEPT !.stack = SubSeq(@, 1, Len(@) - 1)]
         IN IF vert >= Len(m.face_map)
            THEN [popped EXCEPT !.panic = TRUE]
            ELSE Flood(m, VisitFaces(m, popped, m.face_map[vert + 1], 1, label), label)

RECURSIVE CountFrom(_, _, _, _)
\* lines 124-144: the loop over the vertices from index i
CountFrom(m, markers, count, i) ==
    IF i >= Len(m.vertices) THEN [panic |-> FALSE, count |-> count, markers |-> markers]
    ELSE IF markers[i + 1] # 0 THEN CountFrom(m, markers, count, i + 1)
         ELSE LET st == Flood(m, [markers |-> [markers EXCEPT ![i + 1] = count + 1],
                                     stack |-> <<i>>, panic |-> FALSE], count + 1)
              IN IF st.panic
                 THEN [panic |-> TRUE, count |-> count + 1, markers |-> st.markers]
                 ELSE CountFrom(m, st.markers, count + 1, i + 1)

\* count_bodies: the record of the run (panic flag, island_count, island_markers)
CountRun(m) == CountFrom(m, [k \in 1..Len(m.vertices) |-> 0], 0, 0)

count_bodies(m) == CountRun(m).count

----------------------------------------------------------------------------
(* triangle.rs: surface_area and volume.  Values are exact integers in     *)
(* scaled units: surface_area is twice the area, volume six times the      *)
(* volume; NaN is the f32 not-a-number.                                    *)

F32(x) == [nan |-> FALSE, x |-> x]
NaN == [nan |-> TRUE, x |-> 0]

Dot(a, b) == a[1] * b[1] + a[2] * b[2] + a[3] * b[3]
Cross(a, b) == <<a[2] * b[3] - a[3] * b[2], a[3] * b[1] - a[1] * b[3], a[1] * b[2] - a[2] * b[1]>>
\* Vector::magnitude(), rounded down to an integer
Magnitude(v) == CHOOSE r \in 0..Dot(v, v) : r * r <= Dot(v, v) /\ Dot(v, v) < (r + 1) * (r + 1)

\* faulty variant: the two sides are taken in the opposite order
SideCrossReversed(t) == Cross(VSub(t[3], t[1]), VSub(t[2], t[1]))

\* the cross product of the two sides from the first corner
SideCross(t) == Cross(VSub(t[2], t[1]), VSub(t[3], t[1]))

RECURSIVE SumAreas(_)
SumAreas(ts) == IF ts = <<>> THEN 0 ELSE Magnitude(SideCross(ts[1])) + SumAreas(Tail(ts))

\* surface_area(triangles), times 2
surface_area(ts) == F32(SumAreas(ts))

RECURSIVE SumHeights(_)
SumHeights(ts) == IF ts = <<>> THEN 0 ELSE Dot(SideCross(ts[1]), ts[1][1]) + SumHeights(Tail(ts))

\* volume(triangles), times 6: normalize() of a zero cross product is 0/0, and a
\* NaN term makes the sum NaN
volume(ts) ==
    IF \E k \in DOMAIN ts : SideCross(ts[k]) = <<0, 0, 0>> THEN NaN
    ELSE F32(SumHeights(ts))

----------------------------------------------------------------------------
(* triangle.rs: the binary STL codec.  An f32 is kept as its three bit     *)
(* fields, a byte as a number in 0..255, a file as a sequence of bytes.    *)
(* The numbers the normal is computed from are small integers with a       *)
(* sign, so that -0.0 and the NaN of 0.0 / 0.0 are told apart.             *)

Ok(x) == [tag |-> "Ok", val |-> x]
Err == [tag |-> "Err"]

\* an f32 number of the normal computation: a signed integer magnitude, or NaN
Num(neg, mag) == [nan |-> FALSE, neg |-> neg, mag |-> mag]
NumNaN(neg) == [nan |-> TRUE, neg |-> neg, mag |-> 0]
\* a coordinate of the input (an integer; zero is +0.0)
FromInt(n) == Num(n < 0, Abs(n))

\* f32 addition, subtraction and multiplication on these numbers (exact; the sum
\* of two opposite numbers is +0.0, the sum of two -0.0 is -0.0)
NumAdd(a, b) ==
    IF a.neg = b.neg THEN Num(a.neg, a.mag + b.mag)
    ELSE IF a.mag > b.mag THEN Num(a.neg, a.mag - b.mag)
    ELSE IF b.mag > a.mag THEN Num(b.neg, b.mag - a.mag)
    ELSE Num(FALSE, 0)
NumSub(a, b) == NumAdd(a, [b EXCEPT !.neg = ~@])
NumMul(a, b) == Num(a.neg # b.neg, a.mag * b.mag)

\* triangle[k] - triangle[0] (lines 36-37)
Edge(p, q) == [a \in 1..3 |-> NumSub(FromInt(p[a]), FromInt(q[a]))]

\* glm::cross (line 38)
NumCross(a, b) ==
    <<NumSub(NumMul(a[2], b[3]), NumMul(a[3], b[2])),
      NumSub(NumMul(a[3], b[1]), NumMul(a[1], b[3])),
      NumSub(NumMul(a[1], b[2]), NumMul(a[2], b[1]))>>

\* the floor of the square root
Isqrt(n) == CHOOSE r \in 0..n : r * r <= n /\ n < (r + 1) * (r + 1)

\* normalize() (line 38): every component divided by the norm.  The norm of the
\* zero vector is 0 and 0.0 / 0.0 is NaN, whose sign bit nanSign is the
\* processor's; the quotient is exact when one component is not zero, which is
\* the case for every triangle written here.
Normalize(c, nanSign) ==
    LET norm == Isqrt(c[1].mag * c[1].mag + c[2].mag * c[2].mag + c[3].mag * c[3].mag)
    IN [a \in 1..3 |->
          IF norm = 0 THEN NumNaN(nanSign = 1)
          ELSE Num(c[a].neg, c[a].mag \div norm)]

\* the normal of lines 36-38
Normal(t, nanSign) == Normalize(NumCross(Edge(t[2], t[1]), Edge(t[3], t[1])), nanSign)

\* the bit fields of an f32: sign (1 bit), exponent (8 bits), fraction (23 bits)
Bits(s, e, f) == [sign |-> s, exp |-> e, frac |-> f]

\* the bit pattern of a number (magnitudes below 2^24 are exact in f32)
F32Bits(a) ==
    LET s == IF a.neg THEN 1 ELSE 0
    IN IF a.nan THEN Bits(s, 255, 2^22)
       ELSE IF a.mag = 0 THEN Bits(s, 0, 0)
       ELSE LET e == CHOOSE e \in 0..23 : 2^e <= a.mag /\ a.mag < 2^(e + 1)
            IN Bits(s, 127 + e, (a.mag - 2^e) * 2^(23 - e))

\* f32::to_le_bytes and f32::from_le_bytes
to_le_bytes(b) ==
    <<b.frac % 256,
      (b.frac \div 256) % 256,
      (b.exp % 2) * 128 + b.frac \div 65536,
      b.sign * 128 + b.exp \div 2>>
from_le_bytes(y) ==
    Bits(y[4] \div 128,
         (y[4] % 128) * 2 + y[3] \div 128,
         (y[3] % 128) * 65536 + y[2] * 256 + y[1])

\* (n as u32).to_le_bytes() and u32::from_le_bytes; the lengths of the model are
\* far below 2^31
U32ToLe(n) == <<n % 256, (n \div 256) % 256, (n \div 65536) % 256, (n \div 16777216) % 256>>
U32FromLe(y) == y[1] + y[2] * 256 + y[3] * 65536 + y[4] * 16777216

\* write_vec3 (lines 17-23) on a vector of bit patterns
write_vec3(v) == to_le_bytes(v[1]) \o to_le_bytes(v[2]) \o to_le_bytes(v[3])

\* the bit patterns of a vertex and of a triangle of the input
VertexBits(p) == [a \in 1..3 |-> F32Bits(FromInt(p[a]))]
TriangleBits(t) == [c \in 1..3 |-> VertexBits(t[c])]

Zeros(n) == [k \in 1..n |-> 0]

\* the bytes of one loop iteration (lines 36-43); attr is the number of bytes
\* that output.write(&[0; 2]) wrote, which the code does not look at
TriangleRecord(t, nanSign, attr) ==
    write_vec3([a \in 1..3 |-> F32Bits(Normal(t, nanSign)[a])])
    \o write_vec3(VertexBits(t[1])) \o write_vec3(VertexBits(t[2]))
    \o write_vec3(VertexBits(t[3]))
    \o Zeros(attr)

RECURSIVE TriangleRecords(_, _, _, _)
TriangleRecords(ts, nanSign, attrs, k) ==
    IF k > Len(ts) THEN <<>>
    ELSE TriangleRecord(ts[k], nanSign, attrs[k]) \o TriangleRecords(ts, nanSign, attrs, k + 1)

\* everything write_stl_binary sends to the file when no call fails (lines 33-44)
WrittenBytes(ts, nanSign, attrs) ==
    Zeros(80) \o U32ToLe(Len(ts)) \o TriangleRecords(ts, nanSign, attrs, 1)

\* what Write::write may return for a buffer of two bytes: Ok(0), Ok(1) or Ok(2)
AttrWrites(ts) == [1..Len(ts) -> 0..2]

\* read_vec3 (lines 48-57) at offset pos of the bytes b
read_vec3(b, pos) ==
    <<from_le_bytes(SubSeq(b, pos + 1, pos + 4)),
      from_le_bytes(SubSeq(b, pos + 5, pos + 8)),
      from_le_bytes(SubSeq(b, pos + 9, pos + 12))>>

RECURSIVE ReadLoopPartial(_, _, _, _)
\* faulty variant: at the end of the file the triangles read so far are returned
ReadLoopPartial(b, pos, left, acc) ==
    IF left = 0 \/ Len(b) < pos + 50 THEN Ok(acc)
    ELSE ReadLoopPartial(b, pos + 50, left - 1,
                         Append(acc, <<read_vec3(b, pos + 12), read_vec3(b, pos + 24),
                                       read_vec3(b, pos + 36)>>))

RECURSIVE ReadLoop(_, _, _, _)
\* the loop of lines 71-78: `left` records still to read from offset pos; a
\* read_exact that meets the end of the file returns the error
ReadLoop(b, pos, left, acc) ==
    IF left = 0 THEN Ok(acc)
    ELSE IF Len(b) < pos + 50 THEN Err
    ELSE ReadLoop(b, pos + 50, left - 1,
                  Append(acc, <<read_vec3(b, pos + 12), read_vec3(b, pos + 24),
                                read_vec3(b, pos + 36)>>))

\* read_stl_binary on the file f (lines 62-80)
read_stl_binary(f) ==
    IF f = None THEN Err
    ELSE IF Len(f.val) < 80 THEN Err
    ELSE IF Len(f.val) < 84 THEN Err
    ELSE ReadLoop(f.val, 84, U32FromLe(SubSeq(f.val, 81, 84)), <<>>)

----------------------------------------------------------------------------
(* thread_request.rs: Request                                              *)

Reqs == {"mesh", "surface_area", "volume", "body_count"}

\* no file has been written or read, no area or volume has been computed
NoFile == file = None /\ wrote = None /\ loaded = None
NoGeometry == area = None /\ vol = None
\* no TransformationUI exists
NoTransformationUI == transformations = <<>> /\ selection = None /\ xformPc = "none"
\* the view's bounds and center have not been asked for
NoView == viewBounds = None /\ viewCenter = None /\ meshViewCenter = None
\* count_bodies is not being followed step by step
NoCount ==
    /\ island_markers = <<>> /\ island_count = 0 /\ open_set = <<>>
    /\ countI = 0 /\ countPc = "none" /\ pushes = <<>>
\* binary_min_search has not been called
NoSearch == searchList = <<>> /\ searchValue = 0 /\ searchResult = None
\* none of the parts outside the mesh engine is in use
NoOther == NoTransformationUI /\ NoView /\ NoCount /\ NoSearch
\* merge_vertices is not being followed step by step
NoWeld ==
    /\ weldIn = <<>> /\ min_axis_distance = 0 /\ weldWrap = FALSE
    /\ quant_map = EmptyMap /\ weldCount = 0 /\ probed = <<>> /\ weldPc = "none"

\* no AnalysisUI: no Request exists and no thread runs
NoRequests ==
    /\ req = {}
    /\ cell = [r \in Reqs |-> None]
    /\ wpc = [r \in Reqs |-> "unspawned"]
    /\ wres = [r \in Reqs |-> None]
    /\ readers = [r \in Reqs |-> {}]
    /\ writes = [r \in Reqs |-> 0]
    /\ uiPc = "surface_area"
    /\ seen = [r \in Reqs |-> None]
    /\ bodySaw = None
    /\ bodyReads = 0
    /\ meshOut = None
    /\ countOut = None

\* the mesh engine, the codec and the requests are not in use
NoCore ==
    /\ triangles = <<>> /\ phase = "none" /\ mesh = None /\ bodies = None
    /\ NoRequests /\ NoFile /\ NoGeometry /\ NoWeld

\* Request::new: a fresh cell holding None, and a spawned worker about to call f
RequestNew(r) ==
    /\ req' = req \cup {r}
    /\ cell' = [cell EXCEPT ![r] = None]
    /\ wpc' = [wpc EXCEPT ![r] = "run"]

\* faulty variant: the worker assigns the cell again after it has finished
WorkerWriteAgain(r) ==
    /\ wpc[r] \in {"write", "done"}
    /\ writes[r] < 2
    /\ readers[r] = {}
    /\ cell' = [cell EXCEPT ![r] = wres[r]]
    /\ writes' = [writes EXCEPT ![r] = @ + 1]
    /\ wpc' = [wpc EXCEPT ![r] = "done"]
    /\ UNCHANGED <<req, wres, readers, meshVars, codecVars, geomVars, weldVars, otherVars, uiVars>>

\* faulty variant: the worker ends without storing thread_result
WorkerWriteDropped(r) ==
    /\ wpc[r] = "write"
    /\ readers[r] = {}
    /\ wpc' = [wpc EXCEPT ![r] = "done"]
    /\ UNCHANGED <<req, cell, writes, wres, readers, meshVars, codecVars, geomVars, weldVars, otherVars, uiVars>>

\* the worker's  *res.write().unwrap() = Some(thread_result) : the write guard is
\* granted only while no read guard is held, and is dropped with the statement
WorkerWrite(r) ==
    /\ wpc[r] = "write"
    /\ readers[r] = {}
    /\ cell' = [cell EXCEPT ![r] = wres[r]]
    /\ writes' = [writes EXCEPT ![r] = @ + 1]
    /\ wpc' = [wpc EXCEPT ![r] = "done"]
    /\ UNCHANGED <<req, wres, readers, meshVars, codecVars, geomVars, weldVars, otherVars, uiVars>>

\* result().read().unwrap() by thread `who`: a read guard on the cell; the value
\* behind the guard is the cell's
ReadGuard(r, who) == readers' = [readers EXCEPT ![r] = @ \cup {who}]
\* the read guard goes out of scope
DropGuard(r, who) == readers' = [readers EXCEPT ![r] = @ \ {who}]

----------------------------------------------------------------------------
(* Inputs of the mesh engine.  With the far corners 131072 apart the       *)
(* tolerance is 2, so (2,2,0) and (3,2,0) coincide within tolerance, and   *)
(* (0,2,0), (0,0,0) lie in cells next to the cell of (2,2,0).              *)

MaxTris == 2

PA == <<2, 2, 0>>
PA1 == <<3, 2, 0>>
PB == <<0, 2, 0>>
PC == <<0, 0, 0>>
PF == <<131072, 0, 0>>
PG == <<0, 131072, 0>>
PH == <<131072, 131072, 0>>
PK == <<0, 0, 131072>>
PL == <<131072, 0, 131072>>

TriSet ==
    { <<PA, PF, PG>>,     \* a triangle with far-apart corners
      <<PA, PG, PH>>,     \* shares PA and PG with the first
      <<PH, PK, PL>>,     \* shares nothing with the first
      <<PB, PA, PK>>,     \* PB lies in the cell below PA's along x
      <<PC, PA, PL>>,     \* PC lies in the cell below PA's along x and y
      <<PA, PA, PF>>,     \* two identical corners
      <<PA, PA1, PF>>,    \* two corners within tolerance
      <<PF, PF, PF>>,     \* one point: alone, a bounding box of zero extent
      <<PC, PC, PC>> }    \* the origin: alone, a bounding box of zero extent

TriangleLists == UNION {[1..n -> TriSet] : n \in 0..MaxTris}

----------------------------------------------------------------------------
(* The sequential use of the engine (mesh.rs main): TriangleMesh::new,     *)
(* then count_bodies                                                       *)

InitMesh ==
    /\ triangles \in TriangleLists
    /\ phase = "input"
    /\ mesh = None
    /\ bodies = None
    /\ NoRequests
    /\ NoFile /\ NoGeometry /\ NoWeld /\ NoOther

\* TriangleMesh::new returns
BuildMesh ==
    /\ phase = "input"
    /\ \E out \in MeshOutcomes(triangles) : out # Panic /\ mesh' = out
    /\ phase' = "built"
    /\ UNCHANGED <<triangles, bodies, reqVars, uiVars, codecVars, geomVars, weldVars, otherVars>>

\* TriangleMesh::new panics on an arithmetic overflow (overflow checks on)
BuildMeshPanics ==
    /\ phase = "input"
    /\ \E wrap \in BOOLEAN : VertexMap(triangles, wrap).panic
    /\ phase' = "panicked"
    /\ UNCHANGED <<triangles, mesh, bodies, reqVars, uiVars, codecVars, geomVars, weldVars, otherVars>>

\* count_bodies returns
CountBodies ==
    /\ phase = "built"
    /\ LET run == CountRun(mesh.val)
       IN ~run.panic /\ bodies' = Some(run.count)
    /\ phase' = "counted"
    /\ UNCHANGED <<triangles, mesh, reqVars, uiVars, codecVars, geomVars, weldVars, otherVars>>

NextMesh == BuildMesh \/ BuildMeshPanics \/ CountBodies

SpecMesh == InitMesh /\ [][NextMesh]_vars

----------------------------------------------------------------------------
(* Inputs for the degenerate filter: triangles whose corners lie on one    *)
(* line, with edges above, at and below the tolerance of 2                 *)

PM == <<65536, 0, 0>>
PN == <<2, 0, 0>>
PO == <<1, 0, 0>>

FilterTris ==
    { <<PC, PM, PF>>,     \* collinear, the corners far apart
      <<PC, PN, PF>>,     \* collinear, PC and PN exactly one tolerance apart
      <<PC, PO, PF>>,     \* collinear, PC and PO closer than the tolerance
      <<PA, PF, PG>>,     \* a triangle with far-apart corners
      <<PA, PA1, PF>>,    \* two corners within tolerance
      <<PF, PF, PF>>,     \* one point: alone, a bounding box of zero extent
      <<PC, PC, PC>> }    \* the origin: alone, a bounding box of zero extent

FilterLists == UNION {[1..n -> FilterTris] : n \in 0..MaxTris}

InitFilter ==
    /\ triangles \in FilterLists
    /\ phase = "input"
    /\ mesh = None
    /\ bodies = None
    /\ NoRequests
    /\ NoFile /\ NoGeometry /\ NoWeld /\ NoOther

\* TriangleMesh::new and count_bodies on the filter inputs
SpecFilter == InitFilter /\ [][NextMesh]_vars

----------------------------------------------------------------------------
(* count_bodies step by step, on the meshes TriangleMesh::new returns      *)

\* lists of one island, of two islands, with a shared edge, with a discarded
\* triangle, and with corners merged inside one triangle
CountInputs ==
    { <<>>,
      << <<PA, PF, PG>> >>,
      << <<PA, PF, PG>>, <<PA, PG, PH>> >>,
      << <<PA, PF, PG>>, <<PH, PK, PL>> >>,
      << <<PA, PG, PH>>, <<PH, PK, PL>> >>,
      << <<PA, PA, PF>>, <<PA, PF, PG>> >>,
      << <<PB, PA, PK>>, <<PC, PA, PL>> >>,
      << <<PC, PC, PC>> >> }

\* how often v occurs in the sequence q
Occurrences(q, v) == Cardinality({k \in DOMAIN q : q[k] = v})

\* self.vertices.len()
VertexCount == Len(mesh.val.vertices)

InitCount ==
    /\ triangles \in CountInputs
    /\ phase = "count"
    /\ mesh \in MeshOutcomes(triangles) \ {Panic}
    /\ bodies = None
    /\ NoRequests
    /\ NoFile /\ NoGeometry /\ NoWeld
    /\ NoTransformationUI /\ NoView /\ NoSearch
    /\ island_markers = [k \in 1..VertexCount |-> 0]
    /\ island_count = 0
    /\ open_set = <<>>
    /\ countI = 0
    /\ countPc = "vertices"
    /\ pushes = [k \in 1..VertexCount |-> 0]

countFrame == <<triangles, phase, mesh, reqVars, uiVars, codecVars, geomVars, weldVars,
                xformVars, viewVars, searchVars>>

\* lines 125-128: the vertex already belongs to an island
CountSkip ==
    /\ countPc = "vertices"
    /\ countI < VertexCount
    /\ island_markers[countI + 1] # 0
    /\ countI' = countI + 1
    /\ UNCHANGED <<island_markers, island_count, open_set, countPc, pushes, bodies, countFrame>>

\* faulty variant: the test of line 125 is missing
CountNewIslandUnchecked ==
    /\ countPc = "vertices"
    /\ countI < VertexCount
    /\ island_count' = island_count + 1
    /\ island_markers' = [island_markers EXCEPT ![countI + 1] = island_count + 1]
    /\ open_set' = <<countI>>
    /\ pushes' = [pushes EXCEPT ![countI + 1] = @ + 1]
    /\ countPc' = "propagate"
    /\ UNCHANGED <<countI, bodies, countFrame>>

\* lines 130-132: a new island starts at vertex i
CountNewIsland ==
    /\ countPc = "vertices"
    /\ countI < VertexCount
    /\ island_markers[countI + 1] = 0
    /\ island_count' = island_count + 1
    /\ island_markers' = [island_markers EXCEPT ![countI + 1] = island_count + 1]
    /\ open_set' = <<countI>>
    /\ pushes' = [pushes EXCEPT ![countI + 1] = @ + 1]
    /\ countPc' = "propagate"
    /\ UNCHANGED <<countI, bodies, countFrame>>

\* what one iteration of the while loop does: pop, then lines 135-142
Propagated ==
    LET vert == open_set[Len(open_set)]
        popped == [markers |-> island_markers,
                   stack |-> SubSeq(open_set, 1, Len(open_set) - 1),
                   panic |-> FALSE]
    IN IF vert >= Len(mesh.val.face_map)
       THEN [popped EXCEPT !.panic = TRUE]
       ELSE VisitFaces(mesh.val, popped, mesh.val.face_map[vert + 1], 1, island_count)

\* lines 133-143: one iteration of `while open_set.len() > 0`
CountPropagate ==
    /\ countPc = "propagate"
    /\ open_set # <<>>
    /\ LET st == Propagated
           pushed == SubSeq(st.stack, Len(open_set), Len(st.stack))
       IN /\ ~st.panic
          /\ island_markers' = st.markers
          /\ open_set' = st.stack
          /\ pushes' = [k \in DOMAIN pushes |-> pushes[k] + Occurrences(pushed, k - 1)]
    /\ UNCHANGED <<island_count, countI, countPc, bodies, countFrame>>

\* line 133: open_set is empty, the loop over the vertices goes on
CountIslandDone ==
    /\ countPc = "propagate"
    /\ open_set = <<>>
    /\ countI' = countI + 1
    /\ countPc' = "vertices"
    /\ UNCHANGED <<island_markers, island_count, open_set, pushes, bodies, countFrame>>

\* line 145: return island_count
CountReturn ==
    /\ countPc = "vertices"
    /\ countI >= VertexCount
    /\ countPc' = "returned"
    /\ bodies' = Some(island_count)
    /\ UNCHANGED <<island_markers, island_count, open_set, countI, pushes, countFrame>>

NextCount ==
    CountSkip \/ CountNewIsland \/ CountPropagate \/ CountIslandDone \/ CountReturn

SpecCount == InitCount /\ [][NextCount]_vars

\* Scheduling: count_bodies runs on one thread, which keeps running
FairSpecCount == SpecCount /\ WF_vars(NextCount)

----------------------------------------------------------------------------
(* merge_vertices, one vertex of the stream per step, on the streams and   *)
(* tolerances TriangleMesh::new hands to it (line 106)                     *)

\* two more triangles: PO lies in the cell below PN's along x, at distance 1
WeldTris == TriSet \cup { <<PN, PF, PG>>, <<PO, PG, PF>> }

WeldLists == UNION {[1..n -> WeldTris] : n \in 0..MaxTris}

InitWeld ==
    /\ triangles \in WeldLists
    /\ phase = "weld"
    /\ mesh = None
    /\ bodies = None
    /\ NoRequests
    /\ NoFile /\ NoGeometry /\ NoOther
    /\ weldIn = Flatten(NonzeroTriangles(triangles))
    /\ min_axis_distance = Extent(triangles)
    /\ weldWrap \in BOOLEAN
    /\ quant_map = EmptyMap
    /\ weldCount = 0
    /\ probed = <<>>
    /\ weldPc = "loop"

\* one iteration of `for v in vertices` (lines 48-74)
WeldVertex ==
    /\ weldPc = "loop"
    /\ weldCount < Len(weldIn)
    /\ LET v == weldIn[weldCount + 1]
           quant == Quant(v, min_axis_distance)
       IN /\ weldWrap \/ ~ProbePanics(quant)
          /\ quant_map' = MergeStep(quant_map, weldCount, v, min_axis_distance)
          /\ probed' = Examined(quant_map, quant, v, min_axis_distance)
    /\ weldCount' = weldCount + 1
    /\ UNCHANGED <<weldIn, min_axis_distance, weldWrap, weldPc>>
    /\ UNCHANGED <<meshVars, reqVars, uiVars, codecVars, geomVars, otherVars>>

\* quant.x - 1 or quant.x + 1 overflows with overflow checks on (lines 54-56)
WeldPanics ==
    /\ weldPc = "loop"
    /\ weldCount < Len(weldIn)
    /\ ~weldWrap
    /\ ProbePanics(Quant(weldIn[weldCount + 1], min_axis_distance))
    /\ weldPc' = "panicked"
    /\ UNCHANGED <<weldIn, min_axis_distance, weldWrap, quant_map, weldCount, probed>>
    /\ UNCHANGED <<meshVars, reqVars, uiVars, codecVars, geomVars, otherVars>>

\* return quant_map (line 75)
WeldReturn ==
    /\ weldPc = "loop"
    /\ weldCount = Len(weldIn)
    /\ weldPc' = "returned"
    /\ UNCHANGED <<weldIn, min_axis_distance, weldWrap, quant_map, weldCount, probed>>
    /\ UNCHANGED <<meshVars, reqVars, uiVars, codecVars, geomVars, otherVars>>

NextWeld == WeldVertex \/ WeldPanics \/ WeldReturn

SpecWeld == InitWeld /\ [][NextWeld]_vars

----------------------------------------------------------------------------
(* analysis_ui.rs: AnalysisUI                                              *)

UA == <<0, 0, 0>>
UB == <<1, 0, 0>>
UC == <<0, 1, 0>>
UD == <<1, 1, 1>>

\* the triangle lists handed to AnalysisUI::new
UiInputs ==
    { <<>>,
      << <<UA, UB, UC>> >>,                    \* one triangle
      << <<UA, UA, UB>> >>,                    \* one triangle with two identical corners
      << <<UD, UD, UD>> >> }                   \* a bounding box of zero extent

\* AnalysisUI::new(Some(t)): three Requests are created, body_count is None
AnalysisUINewSome(t) ==
    /\ triangles = t
    /\ req = {"mesh", "surface_area", "volume"}
    /\ cell = [r \in Reqs |-> None]
    /\ wpc = [r \in Reqs |-> IF r = "body_count" THEN "unspawned" ELSE "run"]

\* AnalysisUI::new(None): no Request is created
AnalysisUINewNone ==
    /\ triangles = <<>>
    /\ req = {}
    /\ cell = [r \in Reqs |-> None]
    /\ wpc = [r \in Reqs |-> "unspawned"]

Init ==
    /\ AnalysisUINewNone \/ \E t \in UiInputs : AnalysisUINewSome(t)
    /\ wres = [r \in Reqs |-> None]
    /\ readers = [r \in Reqs |-> {}]
    /\ writes = [r \in Reqs |-> 0]
    /\ uiPc = "surface_area"
    /\ seen = [r \in Reqs |-> None]
    /\ bodySaw = None
    /\ bodyReads = 0
    /\ meshOut \in MeshOutcomes(triangles)
    /\ countOut = IF meshOut = Panic THEN None ELSE Some(count_bodies(meshOut.val))
    /\ phase = "ui"
    /\ mesh = None
    /\ bodies = None
    /\ NoFile /\ NoGeometry /\ NoWeld /\ NoOther

\* f() returned thread_result x in the worker of r
Returned(r, x) ==
    /\ wres' = [wres EXCEPT ![r] = Some(x)]
    /\ wpc' = [wpc EXCEPT ![r] = "write"]

\* the mesh worker's closure: TriangleMesh::new(&triangles) returns
MeshWorkerRun ==
    /\ wpc["mesh"] = "run"
    /\ meshOut # Panic
    /\ Returned("mesh", meshOut.val)
    /\ UNCHANGED <<req, cell, readers, writes, meshVars, codecVars, geomVars, weldVars, otherVars, uiVars>>

\* the mesh worker's closure panics: the thread ends without writing
MeshWorkerPanics ==
    /\ wpc["mesh"] = "run"
    /\ meshOut = Panic
    /\ wpc' = [wpc EXCEPT !["mesh"] = "panicked"]
    /\ UNCHANGED <<req, cell, wres, readers, writes, meshVars, codecVars, geomVars, weldVars, otherVars, uiVars>>

\* the surface-area worker's closure returns
SurfaceAreaWorkerRun ==
    /\ wpc["surface_area"] = "run"
    /\ Returned("surface_area", surface_area(triangles))
    /\ UNCHANGED <<req, cell, readers, writes, meshVars, codecVars, geomVars, weldVars, otherVars, uiVars>>

\* faulty variant: the volume closure returns what the surface-area worker left
\* in a variable the two share, when that worker has already run
VolumeWorkerShared ==
    /\ wpc["volume"] = "run"
    /\ Returned("volume", IF wres["surface_area"] = None THEN volume(triangles)
                          ELSE wres["surface_area"].val)
    /\ UNCHANGED <<req, cell, readers, writes, meshVars, codecVars, geomVars, weldVars, otherVars, uiVars>>

\* the volume worker's closure returns
VolumeWorkerRun ==
    /\ wpc["volume"] = "run"
    /\ Returned("volume", volume(triangles))
    /\ UNCHANGED <<req, cell, readers, writes, meshVars, codecVars, geomVars, weldVars, otherVars, uiVars>>

\* the body-count closure, line 92: mesh_result.read().unwrap()
BodyCountWorkerRead ==
    /\ wpc["body_count"] = "run"
    /\ ReadGuard("mesh", "body_count")
    /\ bodySaw' = cell["mesh"]
    /\ bodyReads' = bodyReads + 1
    /\ wpc' = [wpc EXCEPT !["body_count"] = "counting"]
    /\ UNCHANGED <<req, cell, wres, writes, meshVars, codecVars, geomVars, weldVars, otherVars, uiPc, seen, meshOut, countOut>>

\* mesh.count_bodies(), taken from countOut for the mesh of this run
CountBodiesOf(m) == IF meshOut = Some(m) THEN countOut.val ELSE count_bodies(m)

\* faulty variant: the closure returns the number of vertices
BodyCountVertices(read) == IF read = None THEN 0 ELSE Len(read.val.vertices)

\* the value the body-count closure returns for what it read (lines 92-96)
BodyCountValue(read) == IF read = None THEN 0 ELSE CountBodiesOf(read.val)

\* the body-count closure returns, and its read guard is dropped
BodyCountWorkerCount ==
    /\ wpc["body_count"] = "counting"
    /\ Returned("body_count", BodyCountValue(bodySaw))
    /\ DropGuard("mesh", "body_count")
    /\ UNCHANGED <<req, cell, writes, meshVars, codecVars, geomVars, weldVars, otherVars, uiVars>>

\* faulty variant: the poll takes the value out of the cell (Option::take)
UiPollTake(r) ==
    /\ ReadGuard(r, "ui")
    /\ seen' = [seen EXCEPT ![r] = cell[r]]
    /\ cell' = [cell EXCEPT ![r] = None]

\* the UI thread polls the cell of r: read guard taken, value looked at
UiPoll(r) ==
    /\ ReadGuard(r, "ui")
    /\ seen' = [seen EXCEPT ![r] = cell[r]]
    /\ cell' = cell

\* lines 58-59: the surface-area row
UiReadSurfaceArea ==
    /\ uiPc = "surface_area"
    /\ IF "surface_area" \in req
       THEN UiPoll("surface_area") /\ uiPc' = "surface_area_held"
       ELSE uiPc' = "volume" /\ UNCHANGED <<cell, readers, seen>>
    /\ UNCHANGED <<req, wpc, wres, writes, meshVars, codecVars, geomVars, weldVars, otherVars, bodySaw, bodyReads, meshOut, countOut>>

\* line 63: the guard of the surface-area row is dropped
UiDropSurfaceArea ==
    /\ uiPc = "surface_area_held"
    /\ DropGuard("surface_area", "ui")
    /\ uiPc' = "volume"
    /\ UNCHANGED <<req, cell, wpc, wres, writes, meshVars, codecVars, geomVars, weldVars, otherVars, seen, bodySaw, bodyReads, meshOut, countOut>>

\* lines 68-69: the volume row
UiReadVolume ==
    /\ uiPc = "volume"
    /\ IF "volume" \in req
       THEN UiPoll("volume") /\ uiPc' = "volume_held"
       ELSE uiPc' = "mesh" /\ UNCHANGED <<cell, readers, seen>>
    /\ UNCHANGED <<req, wpc, wres, writes, meshVars, codecVars, geomVars, weldVars, otherVars, bodySaw, bodyReads, meshOut, countOut>>

\* line 73: the guard of the volume row is dropped
UiDropVolume ==
    /\ uiPc = "volume_held"
    /\ DropGuard("volume", "ui")
    /\ uiPc' = "mesh"
    /\ UNCHANGED <<req, cell, wpc, wres, writes, meshVars, codecVars, geomVars, weldVars, otherVars, seen, bodySaw, bodyReads, meshOut, countOut>>

\* lines 76-78: mesh.read().unwrap(), held for the whole if-let
UiReadMesh ==
    /\ uiPc = "mesh"
    /\ IF "mesh" \in req
       THEN UiPoll("mesh") /\ uiPc' = "mesh_held"
       ELSE uiPc' = "surface_area" /\ UNCHANGED <<cell, readers, seen>>
    /\ UNCHANGED <<req, wpc, wres, writes, meshVars, codecVars, geomVars, weldVars, otherVars, bodySaw, bodyReads, meshOut, countOut>>

\* faulty variant: the frame ends with the read guard on the mesh cell still held
UiMeshNotReadyKeepsGuard ==
    /\ uiPc = "mesh_held"
    /\ cell["mesh"] = None
    /\ uiPc' = "surface_area"
    /\ UNCHANGED <<reqVars, meshVars, codecVars, geomVars, weldVars, otherVars, seen, bodySaw, bodyReads, meshOut, countOut>>

\* line 78: the pattern Some(mesh) does not match; the frame ends
UiMeshNotReady ==
    /\ uiPc = "mesh_held"
    /\ cell["mesh"] = None
    /\ DropGuard("mesh", "ui")
    /\ uiPc' = "surface_area"
    /\ UNCHANGED <<req, cell, wpc, wres, writes, meshVars, codecVars, geomVars, weldVars, otherVars, seen, bodySaw, bodyReads, meshOut, countOut>>

\* lines 81-82: the body-count row when the Request exists
UiReadBodyCount ==
    /\ uiPc = "mesh_held"
    /\ cell["mesh"] # None
    /\ "body_count" \in req
    /\ UiPoll("body_count")
    /\ uiPc' = "body_count_held"
    /\ UNCHANGED <<req, wpc, wres, writes, meshVars, codecVars, geomVars, weldVars, otherVars, bodySaw, bodyReads, meshOut, countOut>>

\* line 86: the guard of the body-count row is dropped
UiDropBodyCount ==
    /\ uiPc = "body_count_held"
    /\ DropGuard("body_count", "ui")
    /\ uiPc' = "mesh_tail"
    /\ UNCHANGED <<req, cell, wpc, wres, writes, meshVars, codecVars, geomVars, weldVars, otherVars, seen, bodySaw, bodyReads, meshOut, countOut>>

\* faulty variant: the button is shown as soon as the mesh Request exists
ButtonShownOnHandle ==
    /\ uiPc = "mesh_held"
    /\ "body_count" \notin req

\* the condition under which the "Compute Body Count" button is shown (lines 76-90)
ButtonShown ==
    /\ uiPc = "mesh_held"
    /\ cell["mesh"] # None
    /\ "body_count" \notin req

\* lines 90-98: the button is clicked; self.body_count = Some(Request::new(..))
UiClickCompute ==
    /\ ButtonShown
    /\ RequestNew("body_count")
    /\ uiPc' = "mesh_tail"
    /\ UNCHANGED <<wres, readers, writes, meshVars, codecVars, geomVars, weldVars, otherVars, seen, bodySaw, bodyReads, meshOut, countOut>>

\* line 90: the button is shown and not clicked in this frame
UiNoClick ==
    /\ ButtonShown
    /\ uiPc' = "mesh_tail"
    /\ UNCHANGED <<reqVars, meshVars, codecVars, geomVars, weldVars, otherVars, seen, bodySaw, bodyReads, meshOut, countOut>>

\* line 101: the mesh read guard is dropped; the frame ends
UiDropMesh ==
    /\ uiPc = "mesh_tail"
    /\ DropGuard("mesh", "ui")
    /\ uiPc' = "surface_area"
    /\ UNCHANGED <<req, cell, wpc, wres, writes, meshVars, codecVars, geomVars, weldVars, otherVars, seen, bodySaw, bodyReads, meshOut, countOut>>

Write == \E r \in Reqs : WorkerWrite(r)

Next ==
    \/ MeshWorkerRun
    \/ MeshWorkerPanics
    \/ SurfaceAreaWorkerRun
    \/ VolumeWorkerRun
    \/ BodyCountWorkerRead
    \/ BodyCountWorkerCount
    \/ Write
    \/ UiReadSurfaceArea
    \/ UiDropSurfaceArea
    \/ UiReadVolume
    \/ UiDropVolume
    \/ UiReadMesh
    \/ UiMeshNotReady
    \/ UiReadBodyCount
    \/ UiDropBodyCount
    \/ UiClickCompute
    \/ UiNoClick
    \/ UiDropMesh

Spec == Init /\ [][Next]_vars

\* a step of the UI thread
UiStep ==
    \/ UiReadSurfaceArea \/ UiDropSurfaceArea \/ UiReadVolume \/ UiDropVolume
    \/ UiReadMesh \/ UiMeshNotReady \/ UiReadBodyCount \/ UiDropBodyCount
    \/ UiClickCompute \/ UiNoClick \/ UiDropMesh

\* a step of a worker thread inside its work function f
WorkerStep ==
    \/ MeshWorkerRun \/ MeshWorkerPanics \/ SurfaceAreaWorkerRun \/ VolumeWorkerRun
    \/ BodyCountWorkerRead \/ BodyCountWorkerCount

\* Scheduling: every running thread keeps running (the UI thread included, whose
\* frame is straight-line code), and a thread blocked in write() is granted the
\* lock when the lock is free again and again.  Every worker step and every write
\* happens at most once per Request, so fairness of the disjunctions is fairness
\* of each thread.
FairSpec ==
    /\ Spec
    /\ WF_vars(UiStep)
    /\ WF_vars(WorkerStep)
    /\ SF_vars(Write)

----------------------------------------------------------------------------
(* Claims about Request and AnalysisUI                                     *)

\* C1: the cell of every Request starts as None and is assigned exactly once, by
\* its own worker's write: every change of a cell is None -> Some(thread_result)
\* made by the worker's write step, no cell is assigned twice, and a cell whose
\* worker has not written holds None.
C1_SingleWrite ==
    [][\A r \in Reqs :
        /\ cell'[r] # cell[r] =>
              /\ cell[r] = None
              /\ cell'[r] = wres[r]
              /\ wpc[r] = "write" /\ wpc'[r] = "done"
              /\ writes'[r] = writes[r] + 1
        /\ writes'[r] <= 1
        /\ writes'[r] = 0 => cell'[r] = None
        /\ writes'[r] # writes[r] => cell'[r] # cell[r]]_vars

\* every Request written once while the UI thread and the body-count worker read
C1_Witness ==
    /\ \A r \in Reqs : writes[r] = 1 /\ cell[r] # None /\ seen[r] # None
    /\ bodyReads = 1

\* C2: polling is stable: a poll returns what the cell holds and leaves the cell
\* unchanged; before the worker's write it returns None; once a reader has seen
\* Some(v), every later poll by every reader returns the same Some(v).
C2_PollStable ==
    [][/\ \A r \in Reqs :
            /\ seen[r] # None => seen'[r] = seen[r]
            /\ seen'[r] # None => seen'[r] = cell'[r]
            /\ writes'[r] = 0 => seen'[r] = None
            /\ (seen'[r] # seen[r] \/ readers'[r] # readers[r]) => cell' = cell
       /\ bodySaw # None => bodySaw' = bodySaw
       /\ bodySaw' # None => bodySaw' = cell'["mesh"]
       /\ bodyReads' # bodyReads => cell' = cell]_vars

\* the UI thread polled the mesh cell before and after the write, and the
\* body-count worker polled it too
C2_Witness ==
    /\ seen["mesh"] # None /\ bodySaw = seen["mesh"]
    /\ seen["body_count"] # None
    /\ uiPc = "body_count_held"

\* C3: under fair scheduling every Request whose work function returns has its
\* cell become Some, although readers keep taking and dropping read guards; no
\* step removes a Request or takes a worker back from its write.
C3_Completes ==
    /\ \A r \in Reqs : (r \in req) ~> (cell[r] # None \/ wpc[r] = "panicked")
    /\ [][\A r \in Reqs :
            /\ r \in req => r \in req'
            /\ wpc[r] = "write" => wpc'[r] \in {"write", "done"}
            /\ wpc[r] = "done" => wpc'[r] = "done"]_vars

\* a worker is ready to write while the UI thread holds a read guard on its cell
C3_Witness ==
    \E r \in Reqs : wpc[r] = "write" /\ "ui" \in readers[r]

\* C6: a body-count Request exists only once the mesh build has completed: the
\* mesh cell holds Some(mesh) whenever the body-count Request exists, and the
\* body-count worker's read returns that mesh.
C6_BodyCountAfterMesh ==
    /\ "body_count" \in req => cell["mesh"] # None
    /\ bodyReads > 0 => bodySaw # None /\ bodySaw = cell["mesh"]

\* the body-count worker has read the mesh of a one-triangle input
C6_Witness ==
    /\ "body_count" \in req /\ bodyReads = 1
    /\ bodySaw # None /\ Len(bodySaw.val.vertices) = 3

\* C7 as stated: the caller needs only the mesh Request to exist: whenever the UI
\* thread is in the mesh section of a frame and no body-count Request exists,
\* the body-count Request can be created, whatever the mesh cell holds.
C7_StartsOnHandle ==
    (uiPc = "mesh_held" /\ "body_count" \notin req) => ENABLED UiClickCompute

\* C7 amended: the body-count Request is created only by the UI thread while it
\* holds a read guard on the mesh cell through which it has seen Some(mesh); it
\* is never created while the mesh cell is None.
C7_StartsOnComplete ==
    [][("body_count" \in req' /\ "body_count" \notin req) =>
          /\ cell["mesh"] # None
          /\ seen["mesh"] = cell["mesh"]
          /\ "ui" \in readers["mesh"]
          /\ wpc'["body_count"] = "run"]_vars

\* the body-count Request has just been created, in a frame that holds the guard
C7_Witness ==
    /\ wpc["body_count"] = "run"
    /\ uiPc = "mesh_tail"
    /\ "ui" \in readers["mesh"]

\* C8: the body-count worker reads the mesh cell exactly once; what it returns
\* and stores is count_bodies of the mesh it read, or 0 when it read None.
C8_BodyCountOfRead ==
    /\ bodyReads <= 1
    /\ wpc["body_count"] \in {"counting", "write", "done"} => bodyReads = 1
    /\ wpc["body_count"] \in {"write", "done"} =>
          wres["body_count"] =
              Some(IF bodySaw = None THEN 0 ELSE count_bodies(bodySaw.val))
    /\ wpc["body_count"] = "done" => cell["body_count"] = wres["body_count"]
    /\ BodyCountValue(None) = 0

\* the worker stored the count of a mesh with one body, and the UI has seen it
C8_Witness ==
    /\ wpc["body_count"] = "done"
    /\ bodySaw # None /\ Len(bodySaw.val.vertices) = 3
    /\ seen["body_count"] = Some(1)

\* C19 as stated: the values the mesh-build, surface-area and volume workers
\* finally store depend only on the input triangle list: the area and the volume
\* are those of the list, and the mesh is the one mesh TriangleMesh::new returns
\* for the list.
C19_InputDetermines ==
    /\ cell["surface_area"] # None => cell["surface_area"] = Some(surface_area(triangles))
    /\ cell["volume"] # None => cell["volume"] = Some(volume(triangles))
    /\ cell["mesh"] # None => MeshOutcomes(triangles) \ {Panic} = {cell["mesh"]}

\* C19, amended: the three workers share no mutable state.  The area and the
\* volume finally stored are those of the input list; the mesh finally stored
\* is one of the meshes TriangleMesh::new can return for the list, the one fixed
\* for the run by the iteration order of its hash map; none of the three depends
\* on the interleaving of the workers with each other and with the polling UI.
C19_NoSharedState ==
    /\ cell["surface_area"] # None => cell["surface_area"] = Some(surface_area(triangles))
    /\ cell["volume"] # None => cell["volume"] = Some(volume(triangles))
    /\ cell["mesh"] # None =>
          cell["mesh"] \in MeshOutcomes(triangles) /\ cell["mesh"] = meshOut

\* the three workers have stored their values for a list of one triangle, while
\* the UI thread was polling
C19_Witness ==
    /\ triangles = <<<<UA, UB, UC>>>>
    /\ cell["mesh"] # None /\ cell["surface_area"] # None /\ cell["volume"] # None
    /\ seen["surface_area"] = None /\ seen["volume"] # None

----------------------------------------------------------------------------
(* Claims about TriangleMesh::new and count_bodies                         *)

\* the vertex indexes a face references
Corners(face) == {face[1], face[2], face[3]}

\* the vertex indexes of mesh m
VertexIds(m) == 0..(Len(m.vertices) - 1)

\* every index stored in the mesh is in range
IndexesValid(m) ==
    /\ \A f \in DOMAIN m.faces : \A c \in 1..3 : m.faces[f][c] < Len(m.vertices)
    /\ \A v \in DOMAIN m.face_map :
          \A k \in DOMAIN m.face_map[v] : m.face_map[v][k] < Len(m.faces)

\* C4 as stated: in every mesh returned by TriangleMesh::new every index of every
\* face is a valid index into vertices and every face_map entry is a valid index
\* into faces.
C4_IndexesValid == phase \in {"built", "counted"} => IndexesValid(mesh.val)

\* C5 as stated: the mesh returned by TriangleMesh::new has exactly one face per
\* retained triangle and none for a discarded one: as many faces as retained
\* triangles.
C5_OneFacePerRetained ==
    phase \in {"built", "counted"} =>
        Len(mesh.val.faces) = Len(NonzeroTriangles(triangles))

\* face_map is consistent with faces: one entry per vertex, all indexes valid,
\* and f is listed for v exactly when face f references v
Consistent(m) ==
    /\ Len(m.face_map) = Len(m.vertices)
    /\ IndexesValid(m)
    /\ \A v \in VertexIds(m) : \A f \in DOMAIN m.faces :
          (f - 1) \in Range(m.face_map[v + 1]) <=> v \in Corners(m.faces[f])

\* two vertices are adjacent when some face references both
Adjacent(m, a, b) == \E f \in DOMAIN m.faces : {a, b} \subseteq Corners(m.faces[f])

RECURSIVE Reach(_, _)
\* the vertices connected to the set S
Reach(m, S) ==
    LET T == S \cup {w \in VertexIds(m) : \E v \in S : Adjacent(m, v, w)}
    IN IF T = S THEN S ELSE Reach(m, T)

\* the number of connected components of the adjacency graph on the vertices
Components(m) == Cardinality({Reach(m, {v}) : v \in VertexIds(m)})

\* C9: on a mesh whose face_map is consistent with its faces, count_bodies returns
\* the number of connected components of the graph on the vertices in which two
\* vertices are adjacent when a face references both, and two vertices of one
\* face carry the same island label.
C9_CountIsComponents ==
    (phase = "counted" /\ Consistent(mesh.val)) =>
        LET labels == CountRun(mesh.val).markers
        IN /\ bodies = Some(Components(mesh.val))
           /\ \A f \in DOMAIN mesh.val.faces :
                 \A a, b \in Corners(mesh.val.faces[f]) :
                     labels[a + 1] = labels[b + 1]

\* two bodies counted on a consistent mesh of two faces and six vertices
C9_Witness ==
    /\ phase = "counted" /\ Consistent(mesh.val)
    /\ Len(mesh.val.faces) = 2 /\ Len(mesh.val.vertices) = 6
    /\ bodies = Some(2)

\* the largest per-axis distance between two points
Chebyshev(p, q) == VMax(VAbs(VSub(p, q)))

\* a triangle fan: at least one triangle, none discarded by the filter, and one
\* point with identical coordinates that is a corner of every triangle
IsFan(ts) ==
    /\ Len(ts) >= 1
    /\ NonzeroTriangles(ts) = ts
    /\ \E p \in AllVertices(ts) : \A k \in DOMAIN ts : p \in Range(ts[k])

\* two triangle sets with disjoint, non-nearby coordinates: the list splits into
\* two fans whose points are pairwise distinct and at least three tolerances
\* apart
TwoFarSets(ts) ==
    \E S \in SUBSET (DOMAIN ts) :
        LET part(I) == [k \in 1..Cardinality(I) |->
                          ts[CHOOSE i \in I : Cardinality({j \in I : j < i}) = k - 1]]
            rest == DOMAIN ts \ S
        IN /\ S # {} /\ rest # {}
           /\ NonzeroTriangles(ts) = ts
           /\ IsFan(part(S)) /\ IsFan(part(rest))
           /\ \A p \in AllVertices(part(S)) : \A q \in AllVertices(part(rest)) :
                 p # q /\ GeTol(Chebyshev(p, q), 3 * Extent(ts))

\* C10 as stated: TriangleMesh::new followed by count_bodies reports 0 for the
\* empty list, 1 for a triangle fan and 2 for two far-apart triangle sets, in
\* every order of the triangles.
C10_EndToEnd ==
    phase = "counted" =>
        /\ triangles = <<>> => bodies = Some(0)
        /\ IsFan(triangles) => bodies = Some(1)
        /\ TwoFarSets(triangles) => bodies = Some(2)

----------------------------------------------------------------------------
(* The codec in use: write_stl_binary(path, &triangles), then              *)
(* read_stl_binary(path)                                                   *)

WA == <<3, -2, 0>>
WB == <<3, 1, 0>>
WC == <<0, -2, 0>>

\* the triangles written: one with a repeated corner (its normal is NaN) and one
\* with negative and odd coordinates (its normal has a -0.0 component)
CodecTris == { <<UA, UA, UB>>, <<WA, WB, WC>> }
CodecLists == UNION {[1..n -> CodecTris] : n \in 0..MaxTris}

InitCodec ==
    /\ triangles \in CodecLists
    /\ phase = "codec"
    /\ mesh = None
    /\ bodies = None
    /\ NoRequests
    /\ NoFile /\ NoGeometry /\ NoWeld /\ NoOther

\* write_stl_binary returns Ok(()): every call succeeded; each write of the two
\* attribute bytes wrote as many bytes as attrs says
WriteStlBinary ==
    /\ phase = "codec" /\ wrote = None
    /\ \E nanSign \in 0..1 : \E attrs \in AttrWrites(triangles) :
          file' = Some(WrittenBytes(triangles, nanSign, attrs))
    /\ wrote' = Ok(<<>>)
    /\ UNCHANGED <<meshVars, reqVars, uiVars, loaded, geomVars, weldVars, otherVars>>

\* File::create fails (line 32): nothing is at the path
WriteStlBinaryCreateFails ==
    /\ phase = "codec" /\ wrote = None
    /\ wrote' = Err
    /\ UNCHANGED <<meshVars, reqVars, uiVars, file, loaded, geomVars, weldVars, otherVars>>

\* a write fails after k bytes have reached the file: `?` returns the error and
\* the file keeps what was written
WriteStlBinaryWriteFails ==
    /\ phase = "codec" /\ wrote = None
    /\ \E nanSign \in 0..1 : \E attrs \in AttrWrites(triangles) :
          LET out == WrittenBytes(triangles, nanSign, attrs)
          IN \E k \in 0..(Len(out) - 1) : file' = Some(SubSeq(out, 1, k))
    /\ wrote' = Err
    /\ UNCHANGED <<meshVars, reqVars, uiVars, loaded, geomVars, weldVars, otherVars>>

\* read_stl_binary(path) returns
ReadStlBinary ==
    /\ phase = "codec" /\ wrote # None /\ loaded = None
    /\ loaded' = read_stl_binary(file)
    /\ UNCHANGED <<meshVars, reqVars, uiVars, file, wrote, geomVars, weldVars, otherVars>>

NextCodec ==
    \/ WriteStlBinary
    \/ WriteStlBinaryCreateFails
    \/ WriteStlBinaryWriteFails
    \/ ReadStlBinary

SpecCodec == InitCodec /\ [][NextCodec]_vars

----------------------------------------------------------------------------
(* The geometry functions in use: triangle::surface_area(&triangles) and   *)
(* triangle::volume(&triangles)                                            *)

\* the unit cube [0,1]^3 as 12 triangles, two per face, each counter-clockwise
\* seen from outside
UnitCube ==
    << <<<<0, 0, 0>>, <<0, 1, 0>>, <<1, 1, 0>>>>, <<<<0, 0, 0>>, <<1, 1, 0>>, <<1, 0, 0>>>>,
       <<<<0, 0, 1>>, <<1, 0, 1>>, <<1, 1, 1>>>>, <<<<0, 0, 1>>, <<1, 1, 1>>, <<0, 1, 1>>>>,
       <<<<0, 0, 0>>, <<1, 0, 0>>, <<1, 0, 1>>>>, <<<<0, 0, 0>>, <<1, 0, 1>>, <<0, 0, 1>>>>,
       <<<<0, 1, 0>>, <<0, 1, 1>>, <<1, 1, 1>>>>, <<<<0, 1, 0>>, <<1, 1, 1>>, <<1, 1, 0>>>>,
       <<<<0, 0, 0>>, <<0, 0, 1>>, <<0, 1, 1>>>>, <<<<0, 0, 0>>, <<0, 1, 1>>, <<0, 1, 0>>>>,
       <<<<1, 0, 0>>, <<1, 1, 0>>, <<1, 1, 1>>>>, <<<<1, 0, 0>>, <<1, 1, 1>>, <<1, 0, 1>>>> >>

\* the list ts started at its triangle r + 1, every triangle started at its
\* corner c + 1 (the orientation is kept)
Rotated(ts, r, c) ==
    [k \in DOMAIN ts |->
        LET t == ts[((k - 1 + r) % Len(ts)) + 1]
        IN [j \in 1..3 |-> t[((j - 1 + c) % 3) + 1]]]

\* the unit cube in 36 orders of its triangles and corners
UnitCubes == {Rotated(UnitCube, r, c) : r \in 0..11, c \in 0..2}

GeometryInputs == UnitCubes \cup UiInputs

InitGeometry ==
    /\ triangles \in GeometryInputs
    /\ phase = "geometry"
    /\ mesh = None
    /\ bodies = None
    /\ NoRequests
    /\ NoFile /\ NoGeometry /\ NoWeld /\ NoOther

\* surface_area(&triangles) returns
SurfaceArea ==
    /\ phase = "geometry" /\ area = None
    /\ area' = Some(surface_area(triangles))
    /\ UNCHANGED <<meshVars, reqVars, uiVars, codecVars, weldVars, otherVars, vol>>

\* volume(&triangles) returns
Volume ==
    /\ phase = "geometry" /\ vol = None
    /\ vol' = Some(volume(triangles))
    /\ UNCHANGED <<meshVars, reqVars, uiVars, codecVars, weldVars, otherVars, area>>

NextGeometry == SurfaceArea \/ Volume

SpecGeometry == InitGeometry /\ [][NextGeometry]_vars

----------------------------------------------------------------------------
(* transformation_ui.rs: TransformationUI.  An entry of the list is        *)
(* modelled by its kind; a frame receives at most one click.               *)

MaxEntries == 3

Kinds == {"Rotation", "Scale", "Translation"}

\* Vec::remove(i) for an index inside the list (the list is 0-based in the code)
RemoveAt(list, i) == SubSeq(list, 1, i) \o SubSeq(list, i + 2, Len(list))

\* Vec::swap(i, i - 1)
SwapDown(list, i) == [list EXCEPT ![i + 1] = list[i], ![i] = list[i + 1]]

\* lines 108-122: the selection after entry i has moved up
SelectionAfterSwap(sel, i) ==
    IF sel = None THEN None
    ELSE IF sel.val = i THEN Some(i - 1)
    ELSE IF sel.val = i - 1 THEN Some(i)
    ELSE sel

\* lines 128-139: the selection after entry i has been removed
SelectionAfterRemove(sel, i) ==
    IF sel = None THEN None
    ELSE IF sel.val = i THEN None
    ELSE IF sel.val > i THEN Some(sel.val - 1)
    ELSE sel

\* the outcome of a frame: the fields as the frame left them, and whether an
\* index was out of bounds (a panic)
Outcome(list, sel, panic) == [transformations |-> list, selection |-> sel, panic |-> panic]

RECURSIVE Rows(_, _, _, _, _)
\* lines 96-149: the iterations i..n-1 of `for i in 0..self.transformations.len()`,
\* n being the length of the list when the loop started
Rows(list, sel, i, n, click) ==
    IF i >= n THEN Outcome(list, sel, FALSE)
    ELSE IF click = <<"x", i>>
    THEN \* lines 126-140
         IF i >= Len(list) THEN Outcome(list, sel, TRUE)
         ELSE Rows(RemoveAt(list, i), SelectionAfterRemove(sel, i), i + 1, n, click)
    ELSE LET sel1 == IF click = <<"edit", i>> THEN Some(i) ELSE sel
             up == click = <<"^", i>> /\ i > 0
         IN IF up /\ i >= Len(list) THEN Outcome(list, sel1, TRUE)
            ELSE LET list2 == IF up THEN SwapDown(list, i) ELSE list
                     sel2 == IF up THEN SelectionAfterSwap(sel1, i) ELSE sel1
                 IN \* line 142: self.transformations[i]
                    IF i >= Len(list2) THEN Outcome(list2, sel2, TRUE)
                    ELSE Rows(list2, sel2, i + 1, n, click)

\* lines 150-163: the "+" menu
Menu(out, click) ==
    IF ~out.panic /\ click[1] = "+"
    THEN [out EXCEPT !.transformations = Append(@, click[2])]
    ELSE out

\* TransformationUI::ui for one frame with the given click
Frame(list, sel, click) == Menu(Rows(list, sel, 0, Len(list), click), click)

NoClick == <<"none", 0>>

\* the clicks a frame can receive: none, a button of one of the rows drawn (the
\* "^" of row 0 is disabled), or an entry of the "+" menu
Clicks(list) ==
    {NoClick}
    \cup {<<b, i>> : b \in {"x", "edit"}, i \in 0..(Len(list) - 1)}
    \cup {<<"^", i>> : i \in 1..(Len(list) - 1)}
    \cup {<<"+", k>> : k \in IF Len(list) < MaxEntries THEN Kinds ELSE {}}

\* TransformationUI::new()
InitTransformationUI ==
    /\ NoCore /\ NoView /\ NoCount /\ NoSearch
    /\ transformations = <<>>
    /\ selection = None
    /\ xformPc = "idle"

\* a frame in which ui() returns
TransformationUIFrame ==
    /\ xformPc = "idle"
    /\ \E click \in Clicks(transformations) :
          LET out == Frame(transformations, selection, click)
          IN /\ ~out.panic
             /\ transformations' = out.transformations
             /\ selection' = out.selection
    /\ UNCHANGED <<xformPc, coreVars, viewVars, countVars, searchVars>>

\* a frame in which ui() indexes the list out of bounds
TransformationUIPanics ==
    /\ xformPc = "idle"
    /\ \E click \in Clicks(transformations) :
          LET out == Frame(transformations, selection, click)
          IN /\ out.panic
             /\ transformations' = out.transformations
             /\ selection' = out.selection
    /\ xformPc' = "panicked"
    /\ UNCHANGED <<coreVars, viewVars, countVars, searchVars>>

NextTransformationUI == TransformationUIFrame \/ TransformationUIPanics

SpecTransformationUI == InitTransformationUI /\ [][NextTransformationUI]_vars

----------------------------------------------------------------------------
(* mesh_widget/view_state.rs and mesh_view.rs: the bounds and the center   *)
(* of the displayed mesh                                                   *)

\* v / 2.0 for a vector v of integers: the exact value, kept as a fraction
Halved(v) == [num |-> v, den |-> 2]

VAdd(a, b) == <<a[1] + b[1], a[2] + b[2], a[3] + b[3]>>

\* lines 242-245 of view_state.rs (378-379 of mesh_view.rs) for one vertex:
\* min_vec[i] is assigned first, and the assignment to max_vec[i] reads it
BoundsStep(acc, vertex) ==
    LET min_vec == [i \in 1..3 |-> Min2(acc[1][i], vertex[i])]
        max_vec == [i \in 1..3 |-> Max2(min_vec[i], vertex[i])]
    IN <<min_vec, max_vec>>

RECURSIVE BoundsLoop(_, _, _)
\* the loops over the triangles and their vertices, from vertex k of the stream
BoundsLoop(acc, vs, k) ==
    IF k > Len(vs) THEN acc ELSE BoundsLoop(BoundsStep(acc, vs[k]), vs, k + 1)

\* view_state.rs: get_bounds
get_bounds(m) ==
    IF Len(m) = 0 THEN None
    ELSE Some(BoundsLoop(<<m[1][1], m[1][1]>>, Flatten(m), 1))

\* view_state.rs: get_center
get_center(m) ==
    LET b == get_bounds(m)
    IN IF b # None THEN Halved(VAdd(b.val[1], b.val[2])) ELSE Halved(<<0, 0, 0>>)

\* mesh_view.rs: get_center, with the loop of its own
mesh_view_get_center(m) ==
    IF Len(m) = 0 THEN Halved(<<0, 0, 0>>)
    ELSE LET b == BoundsLoop(<<m[1][1], m[1][1]>>, Flatten(m), 1)
         IN Halved(VAdd(b[1], b[2]))

\* triangles in several orders of their corners; only in <<UA, UB, UD>> is the
\* last corner the largest on every axis
ViewTris ==
    { <<UA, UB, UC>>, <<UB, UC, UA>>, <<UC, UA, UB>>, <<UA, UB, UD>>, <<WA, WB, WC>> }

ViewLists == UNION {[1..n -> ViewTris] : n \in 0..MaxTris}

InitView ==
    /\ triangles \in ViewLists
    /\ phase = "view"
    /\ mesh = None
    /\ bodies = None
    /\ NoRequests
    /\ NoFile /\ NoGeometry /\ NoWeld
    /\ NoTransformationUI /\ NoCount /\ NoSearch
    /\ NoView

ViewGetBounds ==
    /\ viewBounds = None
    /\ viewBounds' = Some(get_bounds(triangles))
    /\ UNCHANGED <<viewCenter, meshViewCenter, coreVars, xformVars, countVars, searchVars>>

ViewGetCenter ==
    /\ viewCenter = None
    /\ viewCenter' = Some(get_center(triangles))
    /\ UNCHANGED <<viewBounds, meshViewCenter, coreVars, xformVars, countVars, searchVars>>

MeshViewGetCenter ==
    /\ meshViewCenter = None
    /\ meshViewCenter' = Some(mesh_view_get_center(triangles))
    /\ UNCHANGED <<viewBounds, viewCenter, coreVars, xformVars, countVars, searchVars>>

NextView == ViewGetBounds \/ ViewGetCenter \/ MeshViewGetCenter

SpecView == InitView /\ [][NextView]_vars

----------------------------------------------------------------------------
(* mesh.rs: binary_min_search with x_less, on lists sorted by x            *)

MaxSearchLen == 5
MaxCoord == 4

\* x_less(a, b)
x_less(a, b) == a[1] < b[1]

RECURSIVE BinaryMinSearchNoSkip(_, _)
\* faulty variant: the upper half starts at index instead of index + 1
BinaryMinSearchNoSkip(list, value) ==
    IF Len(list) = 0 THEN 0
    ELSE LET index == Len(list) \div 2
         IN IF x_less(list[index + 1], value)
            THEN index + BinaryMinSearchNoSkip(SubSeq(list, index + 2, Len(list)), value)
            ELSE BinaryMinSearchNoSkip(SubSeq(list, 1, index), value)

RECURSIVE binary_min_search(_, _)
\* binary_min_search(list, value, x_less); list[index] of the code is list[index + 1] here
binary_min_search(list, value) ==
    IF Len(list) = 0 THEN 0
    ELSE LET index == Len(list) \div 2
         IN IF x_less(list[index + 1], value)
            THEN index + 1 + binary_min_search(SubSeq(list, index + 2, Len(list)), value)
            ELSE binary_min_search(SubSeq(list, 1, index), value)

\* the points (x, x, x) of the lists, and the values (x, 0, 0) searched for
SearchPoints == {<<x, x, x>> : x \in 0..MaxCoord}
SearchValues == {<<x, 0, 0>> : x \in (-1)..(MaxCoord + 1)}

\* the lists sorted with respect to x_less
SortedLists ==
    {l \in UNION {[1..n -> SearchPoints] : n \in 0..MaxSearchLen} :
        \A a, b \in DOMAIN l : a < b => ~x_less(l[b], l[a])}

InitSearch ==
    /\ NoCore
    /\ NoTransformationUI /\ NoView /\ NoCount
    /\ searchList \in SortedLists
    /\ searchValue \in SearchValues
    /\ searchResult = None

BinaryMinSearch ==
    /\ searchResult = None
    /\ searchResult' = Some(binary_min_search(searchList, searchValue))
    /\ UNCHANGED <<searchList, searchValue, coreVars, xformVars, viewVars, countVars>>

SpecSearch == InitSearch /\ [][BinaryMinSearch]_vars

\* C20: for the unit cube given as 12 outward-oriented axis-aligned triangles of
\* side 1, surface_area returns 6 and volume returns 1 (the model keeps twice the
\* area and six times the volume).
C20_UnitCube ==
    triangles \in UnitCubes =>
        /\ area # None => area = Some(F32(2 * 6))
        /\ vol # None => vol = Some(F32(6 * 1))

\* both functions have returned on a unit cube
C20_Witness == triangles \in UnitCubes /\ area # None /\ vol # None

----------------------------------------------------------------------------
(* Claims about the codec                                                  *)

\* the bit patterns of the coordinates of the list ts
ListBits(ts) == [k \in DOMAIN ts |-> TriangleBits(ts[k])]

\* C14 as stated: reading the file a successful write_stl_binary produced returns
\* a list of the same length, in the same order, whose every coordinate has the
\* bit pattern that was written.
C14_RoundTrip ==
    (wrote = Ok(<<>>) /\ loaded # None) => loaded = Ok(ListBits(triangles))

\* the number of triangles the file announces in its bytes 81..84
Announced(b) == b[81] + b[82] * 256 + b[83] * 65536 + b[84] * 16777216

\* the path cannot be opened, or the file ends before the header, the count or
\* one of the announced records is complete
EndsEarly(f) ==
    \/ f = None
    \/ Len(f.val) < 80
    \/ Len(f.val) < 84
    \/ Len(f.val) < 84 + 50 * Announced(f.val)

\* C15: read_stl_binary returns an error, and with it no triangle, whenever the
\* path cannot be opened or the file ends before the 80-byte header, the 4-byte
\* count or one of the announced 50-byte records has been read in full.
C15_ShortFileIsError ==
    (loaded # None /\ EndsEarly(file)) => loaded = Err

\* a file that announces a record and ends inside it was read
C15_Witness ==
    /\ loaded = Err
    /\ file # None /\ Len(file.val) > 84 /\ Announced(file.val) >= 1

\* C16 as stated: after a successful write_stl_binary of N triangles the file has
\* exactly 84 + 50 N bytes: 80 zero bytes, N as a little-endian u32, and for
\* each triangle 12 bytes of normal, the 36 bytes of its three vertices in
\* input order, and 2 zero bytes.
C16_FileLayout ==
    wrote = Ok(<<>>) =>
        /\ file # None
        /\ Len(file.val) = 84 + 50 * Len(triangles)
        /\ \A k \in 1..80 : file.val[k] = 0
        /\ Announced(file.val) = Len(triangles)
        /\ \A i \in DOMAIN triangles :
              LET at == 84 + 50 * (i - 1)
              IN /\ SubSeq(file.val, at + 13, at + 48) =
                       write_vec3(VertexBits(triangles[i][1]))
                       \o write_vec3(VertexBits(triangles[i][2]))
                       \o write_vec3(VertexBits(triangles[i][3]))
                 /\ file.val[at + 49] = 0 /\ file.val[at + 50] = 0

----------------------------------------------------------------------------
(* Claims about merge_vertices                                             *)

\* the vertex stream TriangleMesh::new hands to merge_vertices (line 106)
WeldInput(ts) == Flatten(NonzeroTriangles(ts))

\* the representative positions of the records of map m, presented in `order`
Representatives(m, order) == [k \in 1..Len(order) |-> m[order[k]].v]

\* C11 as stated: welding the representatives of a first merge_vertices run again,
\* with the same tolerance, gives the same number of records, in every order in
\* which the representatives are presented.
C11_WeldIdempotent ==
    phase = "built" =>
        \A wrap \in BOOLEAN :
            LET first == VertexMap(triangles, wrap)
            IN ~first.panic =>
                 \A order \in MapOrders(first.map) :
                    LET again == merge_vertices(Representatives(first.map, order),
                                                Extent(triangles), wrap)
                    IN /\ ~again.panic
                       /\ Cardinality(DOMAIN again.map) = Cardinality(DOMAIN first.map)

\* the hash map after the first k vertices of the stream vs have been handled
MapAfter(vs, k, E) == MergeFrom(EmptyMap, SubSeq(vs, 1, k), 0, E, TRUE).map

\* vertex v with index i was merged into the record of cell c
MergedInto(m, m2, c, i) == c \in DOMAIN m /\ m2 = [m EXCEPT ![c].idx = Append(@, i)]

\* vertex v with index i was inserted as a record of its own quantized cell
InsertedAsOwn(m, m2, v, i, E) ==
    /\ DOMAIN m2 = DOMAIN m \cup {Quant(v, E)}
    /\ m2[Quant(v, E)] = [v |-> v, idx |-> <<i>>]
    /\ \A c \in DOMAIN m \ {Quant(v, E)} : m2[c] = m[c]

\* C12 as stated: every step of merge_vertices either merges the incoming vertex
\* into a record whose representative is at a Chebyshev distance strictly below
\* the tolerance from it, or inserts a new record keyed by the vertex's own
\* quantized cell with the vertex as representative.
C12_MergeWithinChebyshev ==
    phase = "built" =>
        LET E == Extent(triangles)
            vs == WeldInput(triangles)
        IN \A k \in 0..(Len(vs) - 1) :
              LET m == MapAfter(vs, k, E)
                  m2 == MapAfter(vs, k + 1, E)
                  v == vs[k + 1]
              IN \/ \E c \in DOMAIN m :
                       /\ MergedInto(m, m2, c, k)
                       /\ LtTol(VMax(VAbs(VSub(m[c].v, v))), E)
                 \/ InsertedAsOwn(m, m2, v, k, E)

----------------------------------------------------------------------------
(* Further claims about TriangleMesh::new and count_bodies                 *)

\* C13 as stated: in every mesh returned by TriangleMesh::new, face_map has one
\* entry per vertex and is the exact inverse of faces: face f is listed in
\* face_map[v] if and only if faces[f] references vertex v.
C13_FaceMapInverse ==
    phase \in {"built", "counted"} =>
        LET m == mesh.val
        IN /\ Len(m.face_map) = Len(m.vertices)
           /\ \A f \in DOMAIN m.faces : \A v \in Corners(m.faces[f]) :
                 v \in VertexIds(m) /\ (f - 1) \in Range(m.face_map[v + 1])
           /\ \A v \in VertexIds(m) : \A k \in DOMAIN m.face_map[v + 1] :
                 /\ m.face_map[v + 1][k] < Len(m.faces)
                 /\ v \in Corners(m.faces[m.face_map[v + 1][k] + 1])

\* the mesh with no vertices, no faces and no adjacency entries
EmptyMesh == [vertices |-> <<>>, faces |-> <<>>, face_map |-> <<>>]

\* C17: on the empty triangle list TriangleMesh::new returns (it does not panic)
\* the mesh with zero vertices, zero faces and zero adjacency entries; there is
\* no bounding box and the tolerance is derived from the zero box, so it is 0.
C17_EmptyInputEmptyMesh ==
    triangles = <<>> =>
        /\ phase # "panicked"
        /\ bounding_box(triangles) = None /\ Extent(triangles) = 0
        /\ phase \in {"built", "counted"} => mesh = Some(EmptyMesh)

\* TriangleMesh::new has returned on the empty list
C17_Witness == triangles = <<>> /\ phase = "built" /\ mesh = Some(EmptyMesh)

\* C18 as stated: TriangleMesh::new and count_bodies return a result for every
\* triangle list: no arithmetic overflow in merge_vertices, no panic, and no
\* out-of-bounds index in count_bodies.
C18_Total ==
    /\ phase # "panicked"
    /\ \A k \in DOMAIN WeldInput(triangles) :
          ~ProbePanics(Quant(WeldInput(triangles)[k], Extent(triangles)))
    /\ phase \in {"built", "counted"} => ~CountRun(mesh.val).panic

----------------------------------------------------------------------------
(* Claims about the degenerate filter                                      *)

\* d is strictly below the tolerance E / 65536
BelowTolerance(d, E) ==
    \/ d < E \div ToleranceDivisor
    \/ d = E \div ToleranceDivisor /\ E % ToleranceDivisor # 0

\* some edge of t has a largest absolute per-axis difference below the tolerance
HasShortEdge(t, E) ==
    \E e \in {<<1, 2>>, <<2, 3>>, <<3, 1>>} :
        BelowTolerance(Chebyshev(t[e[1]], t[e[2]]), E)

\* the exact product a * b as <<high, low>> with a * b = high * 512 + low and
\* low in 0..511 (the product itself can leave the range of the integers here)
WideProduct(a, b) ==
    LET a1 == a \div 512
        a0 == a % 512
    IN <<a1 * b + (a0 * b) \div 512, (a0 * b) % 512>>

\* the three corners of t lie on one line: the cross product of two sides is zero
Collinear(t) ==
    LET a == VSub(t[2], t[1])
        b == VSub(t[3], t[1])
    IN /\ WideProduct(a[2], b[3]) = WideProduct(a[3], b[2])
       /\ WideProduct(a[3], b[1]) = WideProduct(a[1], b[3])
       /\ WideProduct(a[1], b[2]) = WideProduct(a[2], b[1])

\* the triangles of ts without a short edge, in order
WithoutShortEdge(ts) ==
    LET E == Extent(ts)
        Keep(t) == ~HasShortEdge(t, E)
    IN SelectSeq(ts, Keep)

----------------------------------------------------------------------------
(* Claims about the steps of merge_vertices                                *)

\* the 2 x 2 x 2 block of cells at and below cell q
LowerBlock(q) ==
    {<<x, y, z>> : x \in {q[1] - 1, q[1]}, y \in {q[2] - 1, q[2]}, z \in {q[3] - 1, q[3]}}

\* the cell of the vertex handled by the latest step
LatestCell == Quant(weldIn[weldCount], min_axis_distance)

\* the record of cell c is within tolerance of vertex v, or shares v's cell
Matches(m, c, v, E) == c = Quant(v, E) \/ LtTol(VMax(VSub(m[c].v, v)), E)

\* C22: for an incoming vertex in quantized cell (qx, qy, qz), merge_vertices
\* examines only records keyed by the 8 cells {qx-1, qx} x {qy-1, qy} x {qz-1, qz},
\* stops at the first match, and never merges the vertex into a record keyed by
\* any other cell.
C22_ProbesLowerBlock ==
    [][weldCount' = weldCount + 1 =>
        LET v == weldIn[weldCount + 1]
            q == Quant(v, min_axis_distance)
        IN /\ Range(probed') \subseteq LowerBlock(q)
           /\ \A k \in 1..(Len(probed') - 1) :
                 ~(probed'[k] \in DOMAIN quant_map
                      /\ Matches(quant_map, probed'[k], v, min_axis_distance))
           /\ \A c \in DOMAIN quant_map' :
                 weldCount \in Range(quant_map'[c].idx) => c \in LowerBlock(q)
           /\ \A c \in DOMAIN quant_map :
                 quant_map'[c].idx = Append(quant_map[c].idx, weldCount)
                    => /\ probed' # <<>> /\ c = probed'[Len(probed')]
                       /\ Matches(quant_map, c, v, min_axis_distance)
    ]_vars

\* a vertex was given a record of its own although the cell above its own along
\* x holds a record at a distance below the tolerance: that cell was not looked up
C22_Witness ==
    /\ weldCount > 0
    /\ LET v == weldIn[weldCount]
           up == <<LatestCell[1] + 1, LatestCell[2], LatestCell[3]>>
       IN /\ up \in DOMAIN quant_map
          /\ LtTol(Chebyshev(quant_map[up].v, v), min_axis_distance)
          /\ LatestCell \in DOMAIN quant_map
          /\ quant_map[LatestCell].idx = <<weldCount - 1>>
          /\ Len(probed) = 8

\* the cells whose record lists index k
RecordsOf(k) == {c \in DOMAIN quant_map : k \in Range(quant_map[c].idx)}

\* C24 as stated: any two input vertices with exactly identical coordinates are
\* placed by merge_vertices in the same record, whatever other vertices precede
\* or separate them in the input stream.
C24_SamePointSameRecord ==
    \A a, b \in 0..(weldCount - 1) :
        weldIn[a + 1] = weldIn[b + 1] =>
            \E c \in DOMAIN quant_map : {a, b} \subseteq Range(quant_map[c].idx)

\* C25 as stated: merge_vertices partitions its input: after processing n
\* vertices, every index 0..n-1 appears in the index list of exactly one record
\* (no record is ever overwritten or removed), and each record's representative
\* is the position of the first index in its list.
C25_Partition ==
    /\ \A k \in 0..(weldCount - 1) : Cardinality(RecordsOf(k)) = 1
    /\ \A c \in DOMAIN quant_map :
          /\ quant_map[c].idx # <<>>
          /\ \A k \in DOMAIN quant_map[c].idx : quant_map[c].idx[k] < weldCount
          /\ quant_map[c].v = weldIn[quant_map[c].idx[1] + 1]

----------------------------------------------------------------------------
(* Claims about the adjacency lists                                        *)

\* no value occurs twice in the sequence q
NoDuplicates(q) == \A a, b \in DOMAIN q : q[a] = q[b] => a = b

\* C23 as stated: in every mesh returned by TriangleMesh::new each vertex's
\* adjacency entry is a set of face indices: no face index occurs twice in the
\* same face_map list, and equivalently no retained face references the same
\* vertex index at two corners.
C23_AdjacencyIsSet ==
    phase \in {"built", "counted"} =>
        LET m == mesh.val
        IN /\ \A v \in DOMAIN m.face_map : NoDuplicates(m.face_map[v])
           /\ \A f \in 1..Len(NonzeroTriangles(triangles)) : NoDuplicates(m.faces[f])

----------------------------------------------------------------------------
(* Claims about TransformationUI                                           *)

\* C26 as stated: TransformationUI::ui never indexes the transformations list
\* out of bounds and keeps selection either None or a valid index, in every
\* frame of every sequence of add, remove, edit and move-up clicks, including the
\* frame in which an entry other than the last one is removed.
C26_NoOutOfBounds ==
    /\ xformPc # "panicked"
    /\ selection = None \/ selection.val \in 0..(Len(transformations) - 1)

----------------------------------------------------------------------------
(* Claims about the locks of AnalysisUI                                    *)

\* the cells whose lock the next step of thread `who` asks for with read()
WantsRead(who) ==
    IF who = "ui"
    THEN (IF uiPc = "surface_area" THEN {"surface_area"} \cap req
          ELSE IF uiPc = "volume" THEN {"volume"} \cap req
          ELSE IF uiPc = "mesh" THEN {"mesh"} \cap req
          ELSE IF uiPc = "mesh_held" /\ cell["mesh"] # None THEN {"body_count"} \cap req
          ELSE {})
    ELSE (IF wpc["body_count"] = "run" THEN {"mesh"} ELSE {})

\* the worker of r is blocked in write(): a read guard on its cell is held
WriteBlocked(r) == wpc[r] = "write" /\ readers[r] # {}

\* thread `who` can take its next step
CanStep(who) ==
    IF who = "ui" THEN ENABLED UiStep
    ELSE ENABLED (BodyCountWorkerRead \/ BodyCountWorkerCount)

\* C27: no reachable state of AnalysisUI and its worker threads is a deadlock.
\* A worker blocked in its write waits only for threads that can take a step and
\* that do not ask for a lock behind the blocked writer; the UI thread can always
\* take a step; the mesh cell has been written and has no writer left when the
\* body-count worker asks for its read guard, so that read proceeds; and under
\* fair scheduling every worker that reaches its write completes it.
C27_NoDeadlock ==
    /\ [](/\ CanStep("ui")
          /\ \A r \in Reqs :
                WriteBlocked(r) =>
                    \A h \in readers[r] :
                        /\ h \in {"ui", "body_count"}
                        /\ CanStep(h)
                        /\ \A r2 \in WantsRead(h) : ~WriteBlocked(r2) /\ r2 # r
          /\ \A who \in {"ui", "body_count"} :
                \A r \in WantsRead(who) : wpc[r] = "write" => readers[r] = {}
          /\ wpc["body_count"] = "run" =>
                /\ wpc["mesh"] = "done" /\ cell["mesh"] # None
                /\ ENABLED BodyCountWorkerRead)
    /\ \A r \in Reqs : (wpc[r] = "write") ~> (wpc[r] = "done" /\ cell[r] # None)

\* the body-count worker is blocked in its write by the UI thread, which holds
\* read guards on the mesh cell and on the body-count cell
C27_Witness ==
    /\ WriteBlocked("body_count")
    /\ "ui" \in readers["body_count"] /\ "ui" \in readers["mesh"]

----------------------------------------------------------------------------
(* Claims about the view's bounds                                          *)

\* the smallest and the largest coordinate of the vertices of ts on axis a
AxisMin(ts, a) == CHOOSE x \in {v[a] : v \in AllVertices(ts)} : \A v \in AllVertices(ts) : x <= v[a]
AxisMax(ts, a) == CHOOSE x \in {v[a] : v \in AllVertices(ts)} : \A v \in AllVertices(ts) : x >= v[a]

\* the true bounding box of a non-empty list
TrueBox(ts) == <<[a \in 1..3 |-> AxisMin(ts, a)], [a \in 1..3 |-> AxisMax(ts, a)]>>

\* C28 as stated: the view's get_bounds returns, for a non-empty triangle list,
\* the per-axis minimum and the per-axis maximum over all vertices of all
\* triangles, so that get_center is the midpoint of the true bounding box (the
\* same result as triangle::bounding_box), for every order of the vertices.
C28_TrueBounds ==
    triangles # <<>> =>
        LET box == TrueBox(triangles)
            mid == Halved(VAdd(box[1], box[2]))
        IN /\ bounding_box(triangles) = Some(box)
           /\ viewBounds # None => viewBounds.val = Some(box)
           /\ viewCenter # None => viewCenter.val = mid
           /\ meshViewCenter # None => meshViewCenter.val = mid

----------------------------------------------------------------------------
(* Claims about binary_min_search                                          *)

\* the 0-based indexes of searchList whose element is not less than searchValue
NotLess == {k \in 0..(Len(searchList) - 1) : ~x_less(searchList[k + 1], searchValue)}

\* C30: for a list sorted with respect to less, binary_min_search returns the
\* smallest index whose element is not less than the given value, 0 for an empty
\* list, and the list length when every element is less than the value.
C30_LowerBound ==
    searchResult # None =>
        /\ searchList = <<>> => searchResult = Some(0)
        /\ NotLess = {} => searchResult = Some(Len(searchList))
        /\ NotLess # {} =>
              /\ searchResult.val \in NotLess
              /\ \A k \in NotLess : searchResult.val <= k

\* the list of test_binary_min_search searched for x = 2: the answer is 3
C30_Witness ==
    /\ searchList = << <<0, 0, 0>>, <<1, 1, 1>>, <<1, 1, 1>>, <<3, 3, 3>>, <<4, 4, 4>> >>
    /\ searchValue = <<2, 0, 0>>
    /\ searchResult = Some(3)

----------------------------------------------------------------------------
(* Claims about the steps of count_bodies                                  *)

\* no index of the next iteration of the while loop is out of bounds
PropagateInBounds == (countPc = "propagate" /\ open_set # <<>>) => ~Propagated.panic

\* C29: count_bodies terminates on every mesh: each vertex is labelled and pushed
\* onto the work stack at most once, a label once set to a nonzero island number
\* is never changed, and on return every vertex has a nonzero label between 1
\* and the returned count.
C29_Terminates ==
    /\ <>(countPc = "returned")
    /\ [][\A v \in DOMAIN island_markers :
             island_markers[v] # 0 => island_markers'[v] = island_markers[v]]_vars
    /\ [](/\ \A v \in DOMAIN pushes :
                /\ pushes[v] <= 1
                /\ pushes[v] = 1 <=> island_markers[v] # 0
                /\ Occurrences(open_set, v - 1) <= pushes[v]
          /\ PropagateInBounds
          /\ countPc = "returned" =>
                /\ bodies = Some(island_count)
                /\ open_set = <<>>
                /\ \A v \in DOMAIN island_markers : island_markers[v] \in 1..island_count)

\* count_bodies has returned 1 for two triangles that share an edge: the two
\* shared vertices were met again when they already had their label
C29_Witness ==
    /\ countPc = "returned"
    /\ triangles = << <<PA, PF, PG>>, <<PA, PG, PH>> >>
    /\ VertexCount = 4 /\ bodies = Some(1)
    /\ \A v \in DOMAIN pushes : pushes[v] = 1

====
